---- MODULE Spec2Model ----
(***************************************************************************)
(* UPSCSuperApp: the quiz Session Engine (assets/js/engine.js, v6.1.0,     *)
(* lines 205-640), its drift-corrected timer, answer/time log and scorer,  *)
(* and the Adapter that normalizes raw question banks (v6.1.0).            *)
(*                                                                         *)
(* JavaScript values are encoded as records with a type tag `t`, so that   *)
(* null, numbers, strings, arrays and objects can sit in one collection.   *)
(* Strings are sequences of one-character strings, so that trim, charAt,   *)
(* toUpperCase and toLowerCase are computed, not assumed.  Objects are     *)
(* sequences of key/value pairs in insertion order (Object.keys order).    *)
(* Times are milliseconds, timeSpent values are tenths of a second, marks  *)
(* are thousandths of a mark and scores hundredths of a mark.              *)
(***************************************************************************)
EXTENDS Integers, Sequences, FiniteSets, TLC

\* ------------------------------------------------------------------------
\* JavaScript values
\* ------------------------------------------------------------------------
Null == [t |-> "null"]
Undefined == [t |-> "undefined"]
Num(n) == [t |-> "num", v |-> n, frac |-> FALSE]
\* the non-integer number n + 0.5
Frac(n) == [t |-> "num", v |-> n, frac |-> TRUE]
Bool(b) == [t |-> "bool", v |-> b]
Str(s) == [t |-> "str", v |-> s]
Arr(s) == [t |-> "arr", v |-> s]
Obj(pairs) == [t |-> "obj", v |-> pairs]
KV(key, val) == [k |-> key, v |-> val]

IsNullish(x) == x.t \in {"null", "undefined"}
IsArray(x) == x.t = "arr"

TypeOf(x) ==
    CASE x.t = "num" -> "number"
      [] x.t = "str" -> "string"
      [] x.t = "bool" -> "boolean"
      [] x.t = "undefined" -> "undefined"
      [] OTHER -> "object"

\* ToBoolean: the falsy values are null, undefined, 0, "" and false.
Truthy(x) ==
    CASE x.t \in {"null", "undefined"} -> FALSE
      [] x.t = "num" -> x.v # 0 \/ x.frac
      [] x.t = "str" -> Len(x.v) > 0
      [] x.t = "bool" -> x.v
      [] OTHER -> TRUE

\* a || b
OrElse(a, b) == IF Truthy(a) THEN a ELSE b

\* ------------------------------------------------------------------------
\* Strings
\* ------------------------------------------------------------------------
UpperChars == <<"A","B","C","D","E","F","G","H","I","J","K","L","M",
                "N","O","P","Q","R","S","T","U","V","W","X","Y","Z">>
LowerChars == <<"a","b","c","d","e","f","g","h","i","j","k","l","m",
                "n","o","p","q","r","s","t","u","v","w","x","y","z">>

\* the lower-case letter of each upper-case letter, and the reverse
lowerOfUpper == [c \in {UpperChars[i] : i \in 1..26} |->
                    LowerChars[CHOOSE i \in 1..26 : UpperChars[i] = c]]
upperOfLower == [c \in {LowerChars[i] : i \in 1..26} |->
                    UpperChars[CHOOSE i \in 1..26 : LowerChars[i] = c]]

ToLowerChar(c) == IF c \in DOMAIN lowerOfUpper THEN lowerOfUpper[c] ELSE c
ToUpperChar(c) == IF c \in DOMAIN upperOfLower THEN upperOfLower[c] ELSE c
ToLowerCase(s) == [i \in 1..Len(s) |-> ToLowerChar(s[i])]
ToUpperCase(s) == [i \in 1..Len(s) |-> ToUpperChar(s[i])]

IsSpace(c) == c = " "
\* String.prototype.trim
Trim(s) ==
    IF \A i \in 1..Len(s) : IsSpace(s[i]) THEN <<>>
    ELSE LET first == CHOOSE i \in 1..Len(s) :
                          ~IsSpace(s[i]) /\ \A j \in 1..(i-1) : IsSpace(s[j])
             last == CHOOSE i \in 1..Len(s) :
                          ~IsSpace(s[i]) /\ \A j \in (i+1)..Len(s) : IsSpace(s[j])
         IN SubSeq(s, first, last)
\* String.prototype.charAt: the empty string when the index is out of range
CharAt(s, i) == IF i + 1 <= Len(s) THEN <<s[i + 1]>> ELSE <<>>

DigitChars == <<"0","1","2","3","4","5","6","7","8","9">>
\* decimal representation of a natural number (template-literal conversion)
RECURSIVE Digits(_)
Digits(n) == IF n < 10 THEN <<DigitChars[n + 1]>>
             ELSE Digits(n \div 10) \o <<DigitChars[(n % 10) + 1]>>

\* ------------------------------------------------------------------------
\* Property names used by the Adapter and the Engine
\* ------------------------------------------------------------------------
kQuestions == <<"q","u","e","s","t","i","o","n","s">>
kData == <<"d","a","t","a">>
kQuestion == <<"q","u","e","s","t","i","o","n">>
kText == <<"t","e","x","t">>
kQ == <<"q">>
kTitle == <<"t","i","t","l","e">>
kStatement == <<"s","t","a","t","e","m","e","n","t">>
kOptions == <<"o","p","t","i","o","n","s">>
kChoices == <<"c","h","o","i","c","e","s">>
kAnswers == <<"a","n","s","w","e","r","s">>
kAlternatives == <<"a","l","t","e","r","n","a","t","i","v","e","s">>
kAnswer == <<"a","n","s","w","e","r">>
kCorrect == <<"c","o","r","r","e","c","t">>
kCorrectIndex == <<"c","o","r","r","e","c","t","I","n","d","e","x">>
kAns == <<"a","n","s">>
kExplanation == <<"e","x","p","l","a","n","a","t","i","o","n">>
kSolution == <<"s","o","l","u","t","i","o","n">>
kRationale == <<"r","a","t","i","o","n","a","l","e">>
kDesc == <<"d","e","s","c">>
kNotes == <<"n","o","t","e","s">>
kRemark == <<"r","e","m","a","r","k">>
kTip == <<"t","i","p">>
kCore == <<"c","o","r","e">>
kMain == <<"m","a","i","n">>
kExpertNote == <<"e","x","p","e","r","t","_","n","o","t","e">>
kNote == <<"n","o","t","e">>
kExtra == <<"e","x","t","r","a">>
kElimination == <<"e","l","i","m","i","n","a","t","i","o","n">>
kTrick == <<"t","r","i","c","k">>
kTopic == <<"t","o","p","i","c">>
kSubject == <<"s","u","b","j","e","c","t">>
kCategory == <<"c","a","t","e","g","o","r","y">>
kDifficulty == <<"d","i","f","f","i","c","u","l","t","y">>
kLevel == <<"l","e","v","e","l">>
kTags == <<"t","a","g","s">>
kKeywords == <<"k","e","y","w","o","r","d","s">>
kId == <<"i","d">>

sMath == <<"m","a","t","h">>
sAptitude == <<"a","p","t","i","t","u","d","e">>
sGeneral == <<"G","e","n","e","r","a","l">>
sModerate == <<"M","o","d","e","r","a","t","e">>
\* "Detailed explanation not available for this question."
sNoExplanation == <<"D","e","t","a","i","l","e","d"," ","e","x","p","l","a","n","a","t","i","o","n",
                    " ","n","o","t"," ","a","v","a","i","l","a","b","l","e"," ","f","o","r"," ",
                    "t","h","i","s"," ","q","u","e","s","t","i","o","n",".">>

\* ------------------------------------------------------------------------
\* Objects
\* ------------------------------------------------------------------------
HasOwn(o, key) == o.t = "obj" /\ \E i \in 1..Len(o.v) : o.v[i].k = key

\* o[key]: the own property, undefined when there is none (none of the
\* names looked up here exists on Object, Array, String or Number prototypes)
Get(o, key) ==
    IF HasOwn(o, key)
    THEN o.v[CHOOSE i \in 1..Len(o.v) : o.v[i].k = key].v
    ELSE Undefined

\* Object.keys: own enumerable property names; the indices for arrays and
\* strings, nothing for numbers and booleans
ObjectKeys(o) ==
    CASE o.t = "obj" -> [i \in 1..Len(o.v) |-> o.v[i].k]
      [] o.t \in {"arr", "str"} -> [i \in 1..Len(o.v) |-> Digits(i - 1)]
      [] OTHER -> <<>>

\* Array.prototype.indexOf, 0-based, -1 when absent
IndexOf(s, x) ==
    IF \E i \in 1..Len(s) : s[i] = x
    THEN (CHOOSE i \in 1..Len(s) : s[i] = x /\ \A j \in 1..(i-1) : s[j] # x) - 1
    ELSE -1

\* Array.prototype.includes on an array of values
Includes(a, x) == \E i \in 1..Len(a.v) : a.v[i] = x

\* ------------------------------------------------------------------------
\* Adapter (v6.1.0)
\* ------------------------------------------------------------------------
\* a lookup by the exact names only
RECURSIVE getValExactly(_, _, _)
getValExactly(obj, candidates, n) ==
    IF n > Len(candidates) THEN Null
    ELSE IF Truthy(Get(obj, candidates[n])) THEN Get(obj, candidates[n])
    ELSE getValExactly(obj, candidates, n + 1)

\* getVal(obj, ...candidates): for each candidate in turn, the exact-name
\* property when it is truthy, else the property under the first key that
\* equals the candidate case-insensitively; null when no candidate matches.
\* (Object.keys(obj) throws for null/undefined: see _normalizeItem.)
RECURSIVE getValFrom(_, _, _)
getValFrom(obj, candidates, n) ==
    IF n > Len(candidates) THEN Null
    ELSE LET c == candidates[n]
             realKeys == ObjectKeys(obj)
             keys == [i \in 1..Len(realKeys) |-> ToLowerCase(realKeys[i])]
             matchIndex == IndexOf(keys, ToLowerCase(c))
         IN IF Truthy(Get(obj, c)) THEN Get(obj, c)
            ELSE IF matchIndex > -1 THEN Get(obj, realKeys[matchIndex + 1])
            ELSE getValFrom(obj, candidates, n + 1)

getVal(obj, candidates) == getValFrom(obj, candidates, 1)

\* the letter table { 'A': 0, 'B': 1, 'C': 2, 'D': 3 }
answerMap == [c \in {<<"A">>, <<"B">>, <<"C">>, <<"D">>} |->
                 CASE c = <<"A">> -> 0 [] c = <<"B">> -> 1
                   [] c = <<"C">> -> 2 [] c = <<"D">> -> 3]

\* an index that is read from letters only
correctIndexFromLettersOnly(rawAns) ==
    IF TypeOf(rawAns) = "string"
    THEN LET char == ToUpperCase(CharAt(Trim(rawAns.v), 0))
         IN IF char \in DOMAIN answerMap THEN Num(answerMap[char]) ELSE Num(0)
    ELSE Num(0)

\* step 3 of _normalizeItem: the correct answer as an index
correctIndexOf(rawAns) ==
    IF TypeOf(rawAns) = "number" THEN rawAns
    ELSE IF TypeOf(rawAns) = "string"
    THEN LET char == ToUpperCase(CharAt(Trim(rawAns.v), 0))
         IN IF char \in DOMAIN answerMap THEN Num(answerMap[char]) ELSE Num(0)
    ELSE Num(0)

\* an explanation that is taken from a string only
explanationFromStringOnly(q) ==
    LET rawExpl == getVal(q, <<kExplanation, kSolution, kRationale, kDesc>>)
        notes == getVal(q, <<kNotes, kRemark, kTip>>)
    IN IF Truthy(rawExpl) /\ TypeOf(rawExpl) = "string"
       THEN Obj(<<KV(kCore, rawExpl),
                  KV(kExpertNote, IF Truthy(notes) THEN notes ELSE Null),
                  KV(kElimination, Null)>>)
       ELSE Obj(<<KV(kCore, Str(sNoExplanation)), KV(kExpertNote, Null),
                  KV(kElimination, Null)>>)

\* an explanation object whose parts are copied without a default
explanationCopied(q) ==
    LET rawExpl == getVal(q, <<kExplanation, kSolution, kRationale, kDesc>>)
        notes == getVal(q, <<kNotes, kRemark, kTip>>)
    IN IF Truthy(rawExpl) /\ TypeOf(rawExpl) = "string"
       THEN Obj(<<KV(kCore, rawExpl),
                  KV(kExpertNote, IF Truthy(notes) THEN notes ELSE Null),
                  KV(kElimination, Null)>>)
       ELSE IF Truthy(rawExpl) /\ TypeOf(rawExpl) = "object"
       THEN Obj(<<KV(kCore, getVal(rawExpl, <<kCore, kText, kMain>>)),
                  KV(kExpertNote, getVal(rawExpl, <<kExpertNote, kNote, kExtra>>)),
                  KV(kElimination, getVal(rawExpl, <<kElimination, kTrick>>))>>)
       ELSE Obj(<<KV(kCore, Str(sNoExplanation)), KV(kExpertNote, Null),
                  KV(kElimination, Null)>>)

\* step 4 of _normalizeItem: the explanation in the uniform object shape
explanationOf(q) ==
    LET rawExpl == getVal(q, <<kExplanation, kSolution, kRationale, kDesc>>)
        default == Str(sNoExplanation)
        notes == getVal(q, <<kNotes, kRemark, kTip>>)
    IN IF Truthy(rawExpl) /\ TypeOf(rawExpl) = "string"
       THEN Obj(<<KV(kCore, rawExpl),
                  KV(kExpertNote, IF Truthy(notes) THEN notes ELSE Null),
                  KV(kElimination, Null)>>)
       ELSE IF Truthy(rawExpl) /\ TypeOf(rawExpl) = "object"
       THEN Obj(<<KV(kCore, OrElse(getVal(rawExpl, <<kCore, kText, kMain>>), default)),
                  KV(kExpertNote, OrElse(getVal(rawExpl, <<kExpertNote, kNote, kExtra>>), Null)),
                  KV(kElimination, OrElse(getVal(rawExpl, <<kElimination, kTrick>>), Null))>>)
       ELSE Obj(<<KV(kCore, default), KV(kExpertNote, Null), KV(kElimination, Null)>>)

\* the fallback id `q_${Date.now()}_${index}`
fallbackId(ts, index) == Str(<<"q", "_">> \o Digits(ts) \o <<"_">> \o Digits(index))

\* _normalizeItem(q, index) at clock reading ts.  threw: the call ends in a
\* TypeError (Object.keys of null or undefined, first line of getVal);
\* item: the clean question, or null for a malformed item.
normalizeItem(q, index, ts) ==
    IF IsNullish(q) THEN [threw |-> TRUE, item |-> Null]
    ELSE LET qText == getVal(q, <<kQuestion, kText, kQ, kTitle, kStatement>>)
             qOptions == getVal(q, <<kOptions, kChoices, kAnswers, kAlternatives>>)
             rawAns == getVal(q, <<kAnswer, kCorrect, kCorrectIndex, kAns>>)
         IN IF ~Truthy(qText) \/ ~IsArray(qOptions) \/ Len(qOptions.v) < 2
            THEN [threw |-> FALSE, item |-> Null]
            ELSE [threw |-> FALSE,
                  item |-> Obj(<<
                     KV(kId, OrElse(Get(q, kId), fallbackId(ts, index))),
                     KV(kText, qText),
                     KV(kOptions, qOptions),
                     KV(kCorrectIndex, correctIndexOf(rawAns)),
                     KV(kTopic, OrElse(getVal(q, <<kTopic, kSubject, kCategory>>), Str(sGeneral))),
                     KV(kDifficulty, OrElse(getVal(q, <<kDifficulty, kLevel>>), Str(sModerate))),
                     KV(kTags, OrElse(getVal(q, <<kTags, kKeywords>>), Arr(<<>>))),
                     KV(kExplanation, explanationOf(q))>>)]

\* a source array that is looked for under data before questions
sourceArrayDataFirst(rawData) ==
    IF IsArray(rawData) THEN rawData.v
    ELSE IF Truthy(Get(rawData, kData)) /\ IsArray(Get(rawData, kData))
    THEN Get(rawData, kData).v
    ELSE IF Truthy(Get(rawData, kQuestions)) /\ IsArray(Get(rawData, kQuestions))
    THEN Get(rawData, kQuestions).v
    ELSE IF rawData.t = "obj" /\ \E i \in 1..Len(rawData.v) : IsArray(rawData.v[i].v)
    THEN rawData.v[CHOOSE i \in 1..Len(rawData.v) :
                       /\ IsArray(rawData.v[i].v)
                       /\ \A j \in 1..(i-1) : ~IsArray(rawData.v[j].v)].v.v
    ELSE <<>>

\* step 2 of normalize: the array the questions are read from
sourceArrayOf(rawData) ==
    IF IsArray(rawData) THEN rawData.v
    ELSE IF Truthy(Get(rawData, kQuestions)) /\ IsArray(Get(rawData, kQuestions))
    THEN Get(rawData, kQuestions).v
    ELSE IF Truthy(Get(rawData, kData)) /\ IsArray(Get(rawData, kData))
    THEN Get(rawData, kData).v
    ELSE IF rawData.t = "obj" /\ \E i \in 1..Len(rawData.v) : IsArray(rawData.v[i].v)
    THEN rawData.v[CHOOSE i \in 1..Len(rawData.v) :
                       /\ IsArray(rawData.v[i].v)
                       /\ \A j \in 1..(i-1) : ~IsArray(rawData.v[j].v)].v.v
    ELSE <<>>

\* step 3 of normalize: the reduce over the source array; an exception of
\* _normalizeItem ends the whole call
RECURSIVE reduceItems(_, _, _, _)
reduceItems(sourceArray, n, validItems, ts) ==
    IF n > Len(sourceArray) THEN [threw |-> FALSE, out |-> validItems]
    ELSE LET r == normalizeItem(sourceArray[n], n - 1, ts)
         IN IF r.threw THEN [threw |-> TRUE, out |-> <<>>]
            ELSE reduceItems(sourceArray, n + 1,
                             IF Truthy(r.item) THEN Append(validItems, r.item)
                             ELSE validItems, ts)

\* Adapter.normalize(rawData) at clock reading ts
normalize(rawData, ts) ==
    IF ~Truthy(rawData) THEN [threw |-> FALSE, out |-> <<>>]
    ELSE IF Len(sourceArrayOf(rawData)) = 0 THEN [threw |-> FALSE, out |-> <<>>]
    ELSE reduceItems(sourceArrayOf(rawData), 1, <<>>, ts)

\* ------------------------------------------------------------------------
\* Bounds of the model
\* ------------------------------------------------------------------------
\* most questions in a session
MaxQuestions == 2
\* most step closures created by startTimer in one behaviour
MaxStarts == 2
\* most answer/navigation time flushes in one session
MaxFlushes == 4
\* most questions of a bank whose result is calculated
MaxBankQuestions == 3
\* most successful init calls in one behaviour
MaxSessions == 2
\* seconds of clock followed after the page is loaded, for the engine with
\* its answer log and for the timer with re-entrant callbacks
MaxSeconds == 2
MaxTimerSeconds == 3
\* CONFIG.defaults.timer (config.js:20-21) gives 72 s (gs1) and 90 s (csat)
\* per question; the countdown only multiplies and counts down by them, so
\* the model scales the two allowances down, keeping gs1 < csat
Gs1Seconds == 2
CsatSeconds == 3

\* most calls of Store.saveResult followed in one session
MaxSaves == 2

\* most options of a raw question, most items of a raw file with more
\* than one kind of item
MaxOptions == 3
MaxItems == 2

\* Date.now() when the page is loaded, and the amounts by which the clock
\* moves between two handlers of the page (a multiple of 20 ms that is not
\* a multiple of 100 ms, so that toFixed(1) has something to round and
\* never meets a tie; the timeouts of the page fire late by it)
PageLoadTime == 50 * 1000
ClockSteps == {640}

\* ------------------------------------------------------------------------
\* CONFIG.defaults.scoring, in thousandths of a mark
\* ------------------------------------------------------------------------
Gs1Correct == 2000
Gs1Wrong == 666
CsatCorrect == 2500
CsatWrong == 833

\* ------------------------------------------------------------------------
\* Number formatting
\* ------------------------------------------------------------------------
Max(a, b) == IF a >= b THEN a ELSE b
\* x / d rounded to the nearest integer, halves away from zero: what
\* parseFloat((x / d).toFixed(0)) gives; toFixed(k) is RoundDiv on the
\* value scaled by 10^k
RoundDiv(x, d) == IF x >= 0 THEN (2 * x + d) \div (2 * d)
                  ELSE -((2 * (-x) + d) \div (2 * d))

RECURSIVE SumTo(_, _)
\* f[1] + ... + f[n]
SumTo(f, n) == IF n = 0 THEN 0 ELSE SumTo(f, n - 1) + f[n]

\* ------------------------------------------------------------------------
\* Engine.state, the pending setTimeout callbacks, and the observations
\* ------------------------------------------------------------------------
VARIABLES
    questions,            \* state.questions: sequence of questions
    totalQuestions,       \* state.totalQuestions
    currentIndex,         \* state.currentIndex, 0-based
    userAnswers,          \* state.userAnswers: null or { qId, selected, timeSpent }
    timer,                \* state.timer
    currentQuestionStart, \* state.currentQuestionStart (null is 0, as in arithmetic)
    now,                  \* Date.now()
    timeouts,             \* pending setTimeout(step, ..) calls: [g: closure, due: time]
    starts,               \* number of step closures created so far
    obs,                  \* observations of callbacks and of the user's time
    lastOp,               \* the operation performed last and what it returned
    rawData,              \* the value handed to Adapter.normalize
    normalized,           \* what Adapter.normalize did with rawData
    page                  \* what Main and Store hold of the quiz

vars == <<questions, totalQuestions, currentIndex, userAnswers, timer,
          currentQuestionStart, now, timeouts, starts, obs, lastOp,
          rawData, normalized, page>>

\* the timer object of _resetState (startTime is added by startTimer); a
\* null intervalId, expected or startTime is 0; a non-null intervalId is the
\* handle of the latest timeout of step closure number intervalId
NewTimer == [totalSeconds |-> 0, remaining |-> 0, intervalId |-> 0,
             expected |-> 0, isActive |-> FALSE, startTime |-> 0]

\* observations, none of them read by the engine:
\*   ticks     values passed to the tick callback given to the last startTimer
\*   expires   invocations of the end callback given to the last startTimer
\*   clean     the last startTimer found a full countdown (remaining =
\*             totalSeconds > 0), and no stopTimer, startTimer, init or
\*             calculateResult came since
\*   alone     the last startTimer left no timeout but its own pending
\*   stopped   a client's stopTimer() has returned, no startTimer since
\*   late      a callback ran or remaining was decremented while stopped
\*   begun     startTimer calls since the last successful init (at most 2)
\*   early     a submit or navigation came before the session's startTimer
\*   dwell     per question, the time it has been the current question
\*             since the session's startTimer (advanced by the clock)
\*   open      time since the last submit, successful navigation or startTimer
\*   flushes   per question, the number of intervals added to its record
\*   revisit   per question: 1 an answer was submitted on it, 2 and it was
\*             then left, 3 and an answer was submitted on it again
\*   sessions  successful init calls so far
NewObs == [ticks |-> <<>>, expires |-> 0, clean |-> FALSE, alone |-> FALSE,
           stopped |-> FALSE,
           late |-> FALSE, begun |-> 0, early |-> FALSE,
           dwell |-> <<>>, open |-> 0, flushes |-> <<>>, revisit |-> <<>>,
           sessions |-> 0]

\* Main and Store before the first quiz: the dashboard is shown, no subject
\* is active, the page's clock (quizTimerInterval) is not running, no
\* session was started (Engine.state.sessionStart is null, 0 here),
\* Store.saveResult was not called (saveCalls) and none of its promises is
\* pending (saving)
NewPage == [currentView |-> "home", activeQuizSubject |-> "",
            quizTimerInterval |-> FALSE, sessionStart |-> 0,
            saveCalls |-> 0, saving |-> 0]

\* the engine with its environment as one value, for operations that call
\* each other
Eng == [questions |-> questions, totalQuestions |-> totalQuestions,
        currentIndex |-> currentIndex, userAnswers |-> userAnswers,
        timer |-> timer, currentQuestionStart |-> currentQuestionStart,
        timeouts |-> timeouts, starts |-> starts, obs |-> obs]

Commit(e) ==
    /\ questions' = e.questions
    /\ totalQuestions' = e.totalQuestions
    /\ currentIndex' = e.currentIndex
    /\ userAnswers' = e.userAnswers
    /\ timer' = e.timer
    /\ currentQuestionStart' = e.currentQuestionStart
    /\ timeouts' = e.timeouts
    /\ starts' = e.starts
    /\ obs' = e.obs

\* ------------------------------------------------------------------------
\* Engine (v6.1.0): timer
\* ------------------------------------------------------------------------
\* a stop that also gives up the time that was left
stopTimerDroppingTime(e) ==
    [e EXCEPT !.timeouts = IF e.timer.intervalId # 0
                           THEN {x \in @ : x.g # e.timer.intervalId}
                           ELSE @,
              !.timer.intervalId = 0,
              !.timer.isActive = FALSE,
              !.timer.remaining = 0]

\* stopTimer(): clearTimeout(intervalId) when it is set, then the two fields
stopTimer(e) ==
    [e EXCEPT !.timeouts = IF e.timer.intervalId # 0
                           THEN {x \in @ : x.g # e.timer.intervalId}
                           ELSE @,
              !.timer.intervalId = 0,
              !.timer.isActive = FALSE]

\* stopTimer() called by a client of the engine (a handler or a callback)
clientStopTimer(e) ==
    [stopTimer(e) EXCEPT !.obs.stopped = TRUE, !.obs.clean = FALSE]

\* _resetState()
resetState(e) ==
    [stopTimer(e) EXCEPT !.questions = <<>>,
                         !.totalQuestions = 0,
                         !.currentIndex = 0,
                         !.userAnswers = <<>>,
                         !.timer = NewTimer,
                         !.currentQuestionStart = 0]

\* x.includes(s) for an array or a string x
jsIncludes(x, s) ==
    IF x.t = "arr" THEN Includes(x, Str(s))
    ELSE \E i \in 1..Len(x.v) :
             i + Len(s) - 1 <= Len(x.v) /\ SubSeq(x.v, i, i + Len(s) - 1) = s

\* the observations of a session that has just been initialised
sessionObs(o, n) ==
    [o EXCEPT !.clean = FALSE, !.begun = 0, !.early = FALSE,
              !.dwell = [i \in 1..n |-> 0], !.open = 0,
              !.flushes = [i \in 1..n |-> 0],
              !.revisit = [i \in 1..n |-> 0]]

\* a refusal that comes after the reset
initRefusedAfterReset(e) == [ret |-> "false", e |-> resetState(e)]

\* the refusal of init: the error is logged, false is returned
initRefused(e) == [ret |-> "false", e |-> e]

\* an allowance chosen by the tag "math" alone
isCsatTimingByMathOnly(tags) == Truthy(tags) /\ jsIncludes(tags, sMath)

\* isCsat of init: firstQ.tags && (includes('math') || includes('aptitude'))
isCsatTiming(tags) ==
    Truthy(tags) /\ (jsIncludes(tags, sMath) \/ jsIncludes(tags, sAptitude))

\* init(questions, mode) for the argument qs.  ret is "true", "false" or
\* "throw" (a TypeError: firstQ is null or undefined, or firstQ.tags is
\* truthy and has no includes method)
init(e, qs) ==
    IF ~Truthy(qs) \/ ~IsArray(qs) \/ Len(qs.v) = 0
    THEN initRefused(e)
    ELSE LET n == Len(qs.v)
             loaded == [resetState(e) EXCEPT
                           !.questions = qs.v,
                           !.totalQuestions = n,
                           !.userAnswers = [i \in 1..n |-> Null],
                           !.obs = sessionObs(@, n)]
             firstQ == qs.v[1]
             tags == Get(firstQ, kTags)
         IN IF IsNullish(firstQ) \/ (Truthy(tags) /\ tags.t \notin {"arr", "str"})
            THEN [ret |-> "throw", e |-> loaded]
            ELSE LET isCsat == isCsatTiming(tags)
                     timePerQ == IF isCsat THEN CsatSeconds ELSE Gs1Seconds
                 IN [ret |-> "true",
                     e |-> [loaded EXCEPT !.timer.totalSeconds = n * timePerQ,
                                          !.timer.remaining = n * timePerQ,
                                          !.obs.sessions = @ + 1]]

\* startTimer(tickCallback, endCallback) at time t: creates step closure
\* number starts + 1 and schedules it
startTimer(e, t) ==
    LET s == IF e.timer.isActive THEN stopTimer(e) ELSE e
        g == e.starts + 1
    IN [s EXCEPT !.timer.isActive = TRUE,
                 !.timer.startTime = t,
                 !.timer.expected = t + 1000,
                 !.timer.intervalId = g,
                 !.currentQuestionStart = t,
                 !.timeouts = @ \cup {[g |-> g, due |-> t + 1000]},
                 !.starts = g,
                 !.obs = [@ EXCEPT
                     !.ticks = <<>>,
                     !.expires = 0,
                     !.clean = /\ e.timer.totalSeconds > 0
                               /\ e.timer.remaining = e.timer.totalSeconds,
                     !.alone = s.timeouts = {},
                     !.stopped = FALSE,
                     !.begun = IF @ = 0 THEN 1 ELSE 2,
                     !.dwell = [i \in DOMAIN @ |-> 0],
                     !.open = 0]]

\* ------------------------------------------------------------------------
\* Engine (v6.1.0): answers and navigation
\* ------------------------------------------------------------------------
\* the session's question times are being observed: startTimer was called
\* once since init, before any submit or navigation
Anchored(o) == o.begun = 1 /\ ~o.early

\* observation of one interval being added to the record of question i,
\* by a submit or by a navigation
flushObs(o, i, submit) ==
    [o EXCEPT !.early = @ \/ o.begun = 0,
              !.flushes[i] = @ + 1,
              !.open = 0,
              !.revisit[i] = IF submit THEN (IF @ = 0 THEN 1 ELSE IF @ = 2 THEN 3 ELSE @)
                             ELSE (IF @ = 1 THEN 2 ELSE @)]

\* an entry of userAnswers
AnswerRecord(qId, selected, timeSpent) ==
    [t |-> "ans", qId |-> qId, selected |-> selected, timeSpent |-> timeSpent]

\* (now - currentQuestionStart) / 1000 after parseFloat(x.toFixed(1)), in
\* tenths of a second
elapsedTenths(e, t) == RoundDiv(t - e.currentQuestionStart, 100)

\* a record's time forgotten when it is written again
existingTimeDropped(old) == 0

\* userAnswers[currentIndex]?.timeSpent || 0
existingTimeOf(old) == IF old = Null THEN 0 ELSE old.timeSpent

\* an anchor that submitAnswer leaves where it was
anchorKept(e, t) == e.currentQuestionStart

\* the anchor after submitAnswer: currentQuestionStart = Date.now()
anchorAfterSubmit(e, t) == t

\* submitAnswer(answerIndex) at time t; threw: questions[currentIndex] is
\* undefined or null, so that reading its id is a TypeError
submitAnswer(e, answerIndex, t) ==
    LET i == e.currentIndex + 1
    IN IF i > Len(e.questions) \/ IsNullish(e.questions[i])
       THEN [threw |-> TRUE, e |-> e]
       ELSE LET before == existingTimeOf(e.userAnswers[i])
            IN [threw |-> FALSE,
                e |-> [e EXCEPT
                    !.userAnswers[i] = AnswerRecord(Get(e.questions[i], kId), answerIndex,
                                                    before + elapsedTenths(e, t)),
                    !.currentQuestionStart = anchorAfterSubmit(e, t),
                    !.obs = flushObs(@, i, TRUE)]]

\* a move that adds time to the records of answered questions only
updateTimeOfAnsweredOnly(e, t) ==
    LET i == e.currentIndex + 1
    IN IF e.userAnswers[i] = Null THEN [e EXCEPT !.obs = flushObs(@, i, FALSE)]
       ELSE [e EXCEPT !.userAnswers[i].timeSpent = @ + elapsedTenths(e, t),
                      !.obs = flushObs(@, i, FALSE)]

\* a move that writes a new record without the answer of the old one
updateTimeForgettingSelection(e, t) ==
    LET i == e.currentIndex + 1
        before == IF e.userAnswers[i] = Null THEN 0 ELSE e.userAnswers[i].timeSpent
    IN [e EXCEPT
           !.userAnswers[i] = AnswerRecord(Get(e.questions[i], kId), Null,
                                           before + elapsedTenths(e, t)),
           !.obs = flushObs(@, i, FALSE)]

\* _updateTimeSpentBeforeMove() at time t (currentIndex is in range at
\* both call sites)
updateTimeSpentBeforeMove(e, t) ==
    LET i == e.currentIndex + 1
        existingRecord == IF e.userAnswers[i] # Null THEN e.userAnswers[i]
                          ELSE AnswerRecord(Get(e.questions[i], kId), Null, 0)
    IN [e EXCEPT
           !.userAnswers[i] = [existingRecord EXCEPT !.timeSpent = @ + elapsedTenths(e, t)],
           !.obs = flushObs(@, i, FALSE)]

\* a move forward that restarts the clock of the last question
nextQuestionRestartingAtEnd(e, t) ==
    IF e.currentIndex < Len(e.questions) - 1
    THEN [ret |-> TRUE,
          e |-> [updateTimeSpentBeforeMove(e, t) EXCEPT
                    !.currentIndex = @ + 1, !.currentQuestionStart = t]]
    ELSE [ret |-> FALSE, e |-> [e EXCEPT !.currentQuestionStart = t]]

\* nextQuestion() at time t
nextQuestion(e, t) ==
    IF e.currentIndex < Len(e.questions) - 1
    THEN [ret |-> TRUE,
          e |-> [updateTimeSpentBeforeMove(e, t) EXCEPT
                    !.currentIndex = @ + 1, !.currentQuestionStart = t]]
    ELSE [ret |-> FALSE, e |-> e]

\* prevQuestion() at time t
prevQuestion(e, t) ==
    IF e.currentIndex > 0
    THEN [ret |-> TRUE,
          e |-> [updateTimeSpentBeforeMove(e, t) EXCEPT
                    !.currentIndex = @ - 1, !.currentQuestionStart = t]]
    ELSE [ret |-> FALSE, e |-> e]

\* jumpTo(index) at time t.  The method is defined by the first Engine
\* object of engine.js alone (engine.js:131-138), where the display
\* timestamp is state.questionStartTime; it is currentQuestionStart here
jumpTo(e, index, t) ==
    IF index >= 0 /\ index < Len(e.questions)
    THEN [ret |-> TRUE,
          e |-> [e EXCEPT !.currentIndex = index,
                          !.currentQuestionStart = t,
                          !.obs.early = @ \/ e.obs.begun = 0,
                          !.obs.open = 0]]
    ELSE [ret |-> FALSE, e |-> e]

\* ------------------------------------------------------------------------
\* Engine (v6.1.0): scoring
\* ------------------------------------------------------------------------
NoResult == [subject |-> "", score |-> 0, totalMarks |-> 0, correct |-> 0,
             wrong |-> 0, skipped |-> 0, accuracy |-> 0, totalDuration |-> 0,
             mistakes |-> <<>>, timestamp |-> 0]

\* questions[0]?.tags?.includes('math')
taggedMath(qs) ==
    /\ Len(qs) > 0
    /\ ~IsNullish(qs[1])
    /\ ~IsNullish(Get(qs[1], kTags))
    /\ Get(qs[1], kTags).t \in {"arr", "str"}
    /\ jsIncludes(Get(qs[1], kTags), sMath)

\* a scheme selected by the subject alone
isCsatBySubjectOnly(subjectId, qs) ==
    subjectId = "csat" \/ subjectId = "quant" \/ subjectId = "reasoning"

\* the CSAT scheme is selected (engine.js:538-541)
isCsatSchema(subjectId, qs) ==
    subjectId = "csat" \/ subjectId = "quant" \/ subjectId = "reasoning" \/ taggedMath(qs)

\* a classification that takes an unanswered record for an answer
classOfRecord(userAns, q) ==
    IF userAns = Null THEN "skipped"
    ELSE IF userAns.selected = Get(q, kCorrectIndex) THEN "correct"
    ELSE "wrong"

\* the class the analysis loop puts a question in
classOf(userAns, q) ==
    IF userAns = Null \/ userAns.selected = Null THEN "skipped"
    ELSE IF userAns.selected = Get(q, kCorrectIndex) THEN "correct"
    ELSE "wrong"

\* a score that is rounded only
finalScoreUnclamped(rawScore) == RoundDiv(rawScore, 10)

\* Math.max(0, parseFloat(rawScore.toFixed(2))): rawScore in thousandths
\* of a mark, the result in hundredths
finalScoreOf(rawScore) == Max(0, RoundDiv(rawScore, 10))

\* an accuracy that is cut after its first decimal
accuracyTruncated(correct, attempted) ==
    IF attempted > 0 THEN (correct * 1000) \div attempted ELSE 0

\* attempted > 0 ? ((correct / attempted) * 100).toFixed(1) : 0, after
\* parseFloat, in tenths of a percent
accuracyOf(correct, attempted) ==
    IF attempted > 0 THEN RoundDiv(correct * 1000, attempted) ELSE 0

\* an analysis that adds up the time of every record, answered or not
RECURSIVE analyseTimingEveryRecord(_, _, _, _)
analyseTimingEveryRecord(qs, answers, n, acc) ==
    IF n > Len(qs) THEN acc
    ELSE LET userAns == answers[n]
             timed == IF userAns = Null THEN acc
                      ELSE [acc EXCEPT !.totalTimeSpent = @ + userAns.timeSpent]
         IN analyseTimingEveryRecord(qs, answers, n + 1,
               IF classOf(userAns, qs[n]) = "skipped"
               THEN [timed EXCEPT !.skipped = @ + 1]
               ELSE IF classOf(userAns, qs[n]) = "correct"
               THEN [timed EXCEPT !.correct = @ + 1]
               ELSE [timed EXCEPT !.wrong = @ + 1,
                                  !.mistakes = Append(@, [q |-> qs[n],
                                                          userSelected |-> userAns.selected])])

\* the analysis loop of calculateResult over questions n, n+1, ...
RECURSIVE analyse(_, _, _, _)
analyse(qs, answers, n, acc) ==
    IF n > Len(qs) THEN acc
    ELSE LET userAns == answers[n]
         IN analyse(qs, answers, n + 1,
               IF classOf(userAns, qs[n]) = "skipped"
               THEN [acc EXCEPT !.skipped = @ + 1]
               ELSE IF classOf(userAns, qs[n]) = "correct"
               THEN [acc EXCEPT !.totalTimeSpent = @ + userAns.timeSpent,
                                !.correct = @ + 1]
               ELSE [acc EXCEPT !.totalTimeSpent = @ + userAns.timeSpent,
                                !.wrong = @ + 1,
                                !.mistakes = Append(@, [q |-> qs[n],
                                                        userSelected |-> userAns.selected])])

\* calculateResult(subjectId) at time t: stops the timer and builds the
\* result.  score is in hundredths of a mark, totalMarks in thousandths,
\* accuracy in tenths of a percent, totalDuration in tenths of a second.
calculateResult(e, subjectId, t) ==
    LET qs == e.questions
        correctMarks == IF isCsatSchema(subjectId, qs) THEN CsatCorrect ELSE Gs1Correct
        wrongMarks == IF isCsatSchema(subjectId, qs) THEN CsatWrong ELSE Gs1Wrong
        a == analyse(qs, e.userAnswers, 1,
                     [correct |-> 0, wrong |-> 0, skipped |-> 0,
                      totalTimeSpent |-> 0, mistakes |-> <<>>])
        rawScore == a.correct * correctMarks - a.wrong * wrongMarks
        finalScore == finalScoreOf(rawScore)
        attempted == a.correct + a.wrong
        accuracy == accuracyOf(a.correct, attempted)
    IN [ret |-> [subject |-> subjectId,
                 score |-> finalScore,
                 totalMarks |-> Len(qs) * correctMarks,
                 correct |-> a.correct,
                 wrong |-> a.wrong,
                 skipped |-> a.skipped,
                 accuracy |-> accuracy,
                 totalDuration |-> a.totalTimeSpent,
                 mistakes |-> a.mistakes,
                 timestamp |-> t],
        e |-> [stopTimer(e) EXCEPT !.obs.clean = FALSE]]

\* ------------------------------------------------------------------------
\* Engine (v6.1.0): the step closure of startTimer
\* ------------------------------------------------------------------------
\* what a tick or end callback supplied by the client does when invoked:
\* nothing, throw, or call one of the engine's timer-related methods
CallbackKinds == {"none", "throw", "stop", "start", "init", "calc"}

\* Main.finishQuiz() up to its first await (main.js:580-587): stops the
\* timer and calculates the result for the active subject
finishQuiz(e, subjectId, t) == calculateResult(clientStopTimer(e), subjectId, t)

callback(e, kind, t, qs, subjectId) ==
    CASE kind = "stop" -> clientStopTimer(e)
      [] kind = "start" -> startTimer(e, t)
      [] kind = "init" -> init(e, qs).e
      [] kind = "calc" -> calculateResult(e, subjectId, t).e
      [] kind = "finish" -> finishQuiz(e, subjectId, t).e
      [] OTHER -> e

\* the end condition of step: remaining <= 0
countdownOver(remaining) == remaining <= 0

\* `step` of closure g at time t, its timeout having fired, up to the
\* return of the tick callback (engine.js:370-391); tickKind says what the
\* tick callback does.  active: the guard of line 370 let the run pass.
stepTick(e, g, t, tickKind, qs, subjectId) ==
    LET fired == [e EXCEPT !.timeouts = {x \in @ : x.g # g}]
        dt == t - fired.timer.expected
        reanchored == IF dt > 1000 THEN [fired EXCEPT !.timer.expected = t] ELSE fired
        decremented == [reanchored EXCEPT
                           !.timer.remaining = @ - 1,
                           !.obs.late = @ \/ reanchored.obs.stopped,
                           !.obs.ticks = IF g = reanchored.starts
                                         THEN Append(@, reanchored.timer.remaining - 1)
                                         ELSE @]
    IN IF ~fired.timer.isActive
       THEN [active |-> FALSE, dt |-> dt, e |-> fired]
       ELSE [active |-> TRUE, dt |-> dt,
             e |-> callback(decremented, tickKind, t, qs, subjectId)]

\* the end condition of line 394, read after the tick callback
reachesEnd(e, g, t, tickKind, qs, subjectId) ==
    LET p == stepTick(e, g, t, tickKind, qs, subjectId)
    IN p.active /\ countdownOver(p.e.timer.remaining)

\* an exception leaves the run of `step`: the tick callback is invoked
\* inside try/catch (engine.js:386-390), the end callback is not (line 396)
stepThrows(e, g, t, tickKind, endKind, qs, subjectId) ==
    reachesEnd(e, g, t, tickKind, qs, subjectId) /\ endKind = "throw"

\* the delay of the next tick: Math.max(0, 1000 - dt)
nextDelay(dt) == Max(0, 1000 - dt)

\* one whole run of `step` (engine.js:369-402); endKind says what the end
\* callback does if it is invoked
step(e, g, t, tickKind, endKind, qs, subjectId) ==
    LET p == stepTick(e, g, t, tickKind, qs, subjectId)
        ticked == p.e
        ended == [stopTimer(ticked) EXCEPT
                     !.obs.expires = IF g = ticked.starts THEN @ + 1 ELSE @,
                     !.obs.late = @ \/ ticked.obs.stopped]
    IN IF ~p.active THEN p.e
       ELSE IF countdownOver(ticked.timer.remaining)
       THEN callback(ended, endKind, t, qs, subjectId)
       ELSE [ticked EXCEPT
                !.timer.expected = @ + 1000,
                !.timer.intervalId = g,
                !.timeouts = @ \cup {[g |-> g, due |-> t + nextDelay(p.dt)]}]

\* ------------------------------------------------------------------------
\* Inputs
\* ------------------------------------------------------------------------
\* a question in the shape the Adapter outputs (_normalizeItem, step 5): two
\* options, the answer as an index, supplied id and explanation
Question(i, tags) ==
    Obj(<<KV(kId, Str(<<"q", DigitChars[i + 1]>>)),
          KV(kText, Str(<<"Q", DigitChars[i + 1]>>)),
          KV(kOptions, Arr(<<Str(<<"x">>), Str(<<"y">>)>>)),
          KV(kCorrectIndex, Num(i % 2)),
          KV(kTopic, Str(sGeneral)),
          KV(kDifficulty, Str(sModerate)),
          KV(kTags, tags),
          KV(kExplanation, Obj(<<KV(kCore, Str(<<"e">>)),
                                 KV(kExpertNote, Null),
                                 KV(kElimination, Null)>>))>>)

FirstTags == {Arr(<<>>), Arr(<<Str(sMath)>>)}

\* the tags of a first question: none, "math", "aptitude" after another
\* tag, and no tags property
InitTags == FirstTags \cup {Arr(<<Str(<<"x">>), Str(sAptitude)>>), Undefined}

\* the question lists given to init: 1..MaxBankQuestions normalized
\* questions, the first with the given tags
Bank(n, tags) == Arr([i \in 1..n |-> Question(i, IF i = 1 THEN tags ELSE Arr(<<>>))])
Banks == {Bank(n, tags) : n \in 1..MaxBankQuestions, tags \in FirstTags}

\* banks of 1..MaxQuestions questions with every kind of first tags
TaggedBanks == {Bank(n, tags) : n \in 1..MaxQuestions, tags \in InitTags}

\* the banks of one question: countdowns of Gs1Seconds and of CsatSeconds
TimerBanks == {Bank(1, tags) : tags \in FirstTags}

\* a bank of MaxQuestions questions
FullBank == Bank(MaxQuestions, Arr(<<>>))

\* arguments of init, valid and invalid
InitArgs == Banks \cup {Null, Arr(<<>>)}

\* arguments init refuses: null, undefined, the empty list, and values
\* that are not arrays (a string, an object, a number)
InvalidInitArgs == {Null, Undefined, Arr(<<>>), Str(<<"a", "b">>),
                    Obj(<<KV(kQuestions, Arr(<<Question(1, Arr(<<>>))>>))>>), Num(5)}

\* question lists whose first element is null
NullFirstBanks == {Arr(<<Null>>), Arr(<<Null, Question(2, Arr(<<>>))>>)}

\* indices the question palette can pass to jumpTo: those of the questions
\* of a full bank, and one beyond at either end
JumpTargets == (0 - 1)..MaxQuestions

\* option indices the user can select
AnswerIndices == {Num(0), Num(1)}

\* subject ids passed to calculateResult: ids of CONFIG.subjectsGS1 and
\* subjectsCSAT, and 'csat', which calculateResult compares with
SubjectIds == {"polity", "quant", "reasoning", "csat", "rc"}

\* ------------------------------------------------------------------------
\* Inputs of the Adapter: raw file contents
\* ------------------------------------------------------------------------
\* a property that is left out of an object literal
Absent == [t |-> "absent"]
RawObj(pairs) == Obj(SelectSeq(pairs, LAMBDA p : p.v # Absent))

\* raw answers: absent, numbers in and out of 0..3 and a non-integer,
\* letters in either case and padded, a phrase, the empty string
RawAnswers == {Absent, Num(0), Num(1), Num(3), Num(0 - 1), Frac(1),
               Str(<<"A">>), Str(<<"B">>), Str(<<"b">>), Str(<<" ", "c", " ">>), Str(<<"D">>),
               Str(<<"O","p","t","i","o","n"," ","B">>), Str(<<>>)}

\* raw option lists: absent, not an array, arrays of 0..MaxOptions strings
OptionTexts == [i \in 1..MaxOptions |-> Str(<<"o", DigitChars[i + 1]>>)]
RawOptionLists == {Absent, Str(<<"a", "b">>)} \cup
                  {Arr(SubSeq(OptionTexts, 1, n)) : n \in 0..MaxOptions}

\* the question text under its usual key, under a key in another case, or absent
kTitleCased == <<"T","i","t","l","e">>
RawTexts == {[k |-> kQuestion, v |-> Absent],
             [k |-> kQuestion, v |-> Str(<<"x">>)],
             [k |-> kTitleCased, v |-> Str(<<"x">>)]}

RawQuestion(text, options, answer) ==
    RawObj(<<text, KV(kOptions, options), KV(kAnswer, answer)>>)

RawQuestions == {RawQuestion(t, o, a) : t \in RawTexts, o \in RawOptionLists,
                                        a \in RawAnswers}

\* items of a mixed file: null, a number, a question without options, a
\* full question with an id and a string explanation, a question whose
\* answer is a letter, a question under other names with an explanation
\* object, an empty topic and keywords
MixedItems ==
    {Null, Num(7),
     RawObj(<<KV(kQuestion, Str(<<"x">>))>>),
     RawObj(<<KV(kId, Str(<<"a">>)), KV(kText, Str(<<"x">>)),
              KV(kChoices, Arr(SubSeq(OptionTexts, 1, 2))), KV(kCorrect, Num(1)),
              KV(kSolution, Str(<<"s">>)), KV(kTip, Str(<<"n">>))>>),
     RawQuestion(KV(kQuestion, Str(<<"y">>)), Arr(SubSeq(OptionTexts, 1, 2)), Str(<<"B">>)),
     RawObj(<<KV(kQ, Str(<<"z">>)), KV(kAlternatives, Arr(SubSeq(OptionTexts, 1, 2))),
              KV(kAns, Str(<<"a">>)),
              KV(kExplanation, Obj(<<KV(kText, Str(<<"t">>)), KV(kNote, Str(<<"n">>))>>)),
              KV(kTopic, Str(<<>>)), KV(kKeywords, Arr(<<Str(sMath)>>))>>)}

\* the names under which an item can carry its text, its options, its
\* answer and its tags
textNames == <<kQuestion, kText, kQ, kTitle, kStatement>>
optionNames == <<kOptions, kChoices, kAnswers, kAlternatives>>
answerNames == <<kAnswer, kCorrect, kCorrectIndex, kAns>>
tagNames == <<kTags, kKeywords>>

\* a property name as the file writes it: as the Adapter spells it, in
\* upper case or in lower case
Spelled(spelling, key) ==
    CASE spelling = "upper" -> ToUpperCase(key)
      [] spelling = "lower" -> ToLowerCase(key)
      [] OTHER -> key

\* items that carry text, two options and an answer (a letter or the index
\* 0) under each combination of names, in each spelling
AliasItems ==
    {Obj(<<KV(Spelled(sp, textNames[i]), Str(<<"x">>)),
           KV(Spelled(sp, optionNames[j]), Arr(SubSeq(OptionTexts, 1, 2))),
           KV(Spelled(sp, answerNames[k]), ans)>>) :
        i \in DOMAIN textNames, j \in DOMAIN optionNames, k \in DOMAIN answerNames,
        sp \in {"same", "upper", "lower"}, ans \in {Str(<<"B">>), Num(0)}}

\* what a file can give as an explanation: nothing, null, a string, the
\* empty string, a number, a boolean, a list, an object with each subset of
\* core, expert_note and elimination, one whose core is null, and one under
\* the names main and trick
RawExplanations ==
    {Absent, Null, Str(<<"s">>), Str(<<>>), Num(5), Bool(TRUE), Arr(<<Str(<<"s">>)>>),
     Obj(<<KV(kCore, Null)>>),
     Obj(<<KV(kMain, Str(<<"m">>)), KV(kTrick, Str(<<"t">>))>>)}
    \cup {RawObj(<<KV(kCore, c), KV(kExpertNote, n), KV(kElimination, e)>>) :
             c \in {Absent, Str(<<"c">>)}, n \in {Absent, Str(<<"n">>)},
             e \in {Absent, Str(<<"e">>)}}

\* valid items with each explanation, with and without separate notes
ExplainedItems ==
    {RawObj(<<KV(kQuestion, Str(<<"x">>)), KV(kOptions, Arr(SubSeq(OptionTexts, 1, 2))),
              KV(kAnswer, Num(1)), KV(kExplanation, x), KV(kNotes, n)>>) :
        x \in RawExplanations, n \in {Absent, Str(<<"n">>)}}

MixedLists == UNION {[1..n -> MixedItems] : n \in 0..MaxItems}

kItems == <<"i","t","e","m","s">>

\* files with two top-level fields: under each two of the names questions,
\* data, items and Questions, in either order, a list of one question, a
\* list of another question, the empty list or a number
kQuestionsCased == <<"Q","u","e","s","t","i","o","n","s">>
WrappedLists ==
    {Arr(<<RawQuestion(KV(kQuestion, Str(<<c>>)), Arr(SubSeq(OptionTexts, 1, 2)), Num(0))>>) :
        c \in {"a", "b"}}
TwoFieldFiles ==
    {Obj(<<KV(names[1], v1), KV(names[2], v2)>>) :
        names \in {n \in {kQuestions, kData, kItems, kQuestionsCased}
                         \X {kQuestions, kData, kItems, kQuestionsCased} : n[1] # n[2]},
        v1 \in WrappedLists \cup {Arr(<<>>), Num(1)},
        v2 \in WrappedLists \cup {Arr(<<>>), Num(1)}}

\* what a fetched file can parse to: not a container, a list with one
\* question, a list or a wrapper of mixed items
RawInputs ==
    {Null, Undefined, Num(0), Num(5), Str(<<>>), Str(<<"a", "b">>), Bool(TRUE),
     Bool(FALSE), Obj(<<>>), Obj(<<KV(kQuestions, Num(1))>>)}
    \cup {Arr(<<q>>) : q \in RawQuestions}
    \cup {Arr(l) : l \in MixedLists}
    \cup {Obj(<<KV(k, Arr(l))>>) : k \in {kQuestions, kData, kItems}, l \in MixedLists}
    \cup {Arr(<<q>>) : q \in AliasItems \cup ExplainedItems}
    \cup TwoFieldFiles
    \cup {Obj(<<KV(k, Arr(<<q>>))>>) : k \in {kQuestions, kData}, q \in AliasItems}

\* items of a quiz file: a question tagged math whose answer is the index
\* 0, one under other names whose answer is the index 1 and whose keywords
\* hold "math", and one without tags whose answer is a letter
MathItem ==
    RawObj(<<KV(kQuestion, Str(<<"x">>)), KV(kOptions, Arr(OptionTexts)),
             KV(kAnswer, Num(0)), KV(kTags, Arr(<<Str(sMath)>>))>>)
MathItemRenamed ==
    RawObj(<<KV(kText, Str(<<"y">>)), KV(kChoices, Arr(OptionTexts)),
             KV(kCorrect, Num(1)), KV(kKeywords, Arr(<<Str(<<"x">>), Str(sMath)>>))>>)
LetterItem ==
    RawObj(<<KV(kQuestion, Str(<<"z">>)), KV(kOptions, Arr(OptionTexts)),
             KV(kAnswer, Str(<<"B">>))>>)

\* the files of a quiz: lists of one and of two items
QuizFiles ==
    {Arr(<<MathItem>>), Arr(<<LetterItem>>),
     Arr(<<MathItem, MathItemRenamed>>), Arr(<<MathItemRenamed, MathItem>>),
     Arr(<<MathItem, LetterItem>>), Arr(<<LetterItem, MathItemRenamed>>)}

\* how the fetch of a subject's file ends: response.ok is false, fetch
\* rejects, response.json() rejects, the Adapter script is not loaded, or
\* the file's content is there
LoadOutcomes == {"missing", "fetchError", "parseError", "noAdapter", "loaded"}

\* contents of a subject's file: null, an empty list, an object without a
\* list, lists without a usable item, and lists of one and of two questions
SessionFiles ==
    {Null, Arr(<<>>), Obj(<<>>), Arr(<<Num(7)>>), Arr(<<Null>>),
     Arr(<<RawObj(<<KV(kQuestion, Str(<<"x">>))>>)>>),
     Arr(<<LetterItem>>), Arr(<<LetterItem, MathItemRenamed>>)}

\* subjects whose card the user clicks
SessionSubjects == {"polity"}

\* ------------------------------------------------------------------------
\* Engine (v6.1.0): startSession
\* ------------------------------------------------------------------------
\* startSession from the point where Adapter.normalize has returned n
\* (engine.js:276-287): a throw of normalize is caught and false returned,
\* otherwise init is called with the questions and its falsy results become
\* false
sessionOf(e, n) ==
    LET r == init(e, Arr(n.out))
    IN IF n.threw
       THEN [ret |-> "false", began |-> FALSE, found |-> "threw", e |-> e]
       ELSE [ret |-> IF r.ret = "true" THEN "true" ELSE "false",
             began |-> r.ret # "false",
             found |-> IF n.out = <<>> THEN "nothing" ELSE "questions", e |-> r.e]

\* a loader that clears the engine before it fetches the file
startSessionResettingFirst(e, outcome, file, t) ==
    IF outcome # "loaded"
    THEN [ret |-> "false", began |-> FALSE, found |-> outcome, e |-> resetState(e)]
    ELSE sessionOf(resetState(e), normalize(file, t))

\* startSession(subjectId) from the point where the fetch has ended with
\* the given outcome, file being the content parsed (engine.js:262-287; the
\* steps before it change nothing), at time t.  An exception of normalize
\* or of init is caught and false returned.  began: init got past its
\* validation and set state.sessionStart; found: how the fetch ended if it
\* failed, otherwise what normalize did with the file ("threw", "nothing"
\* for an empty list, "questions")
startSession(e, outcome, file, t) ==
    IF outcome # "loaded"
    THEN [ret |-> "false", began |-> FALSE, found |-> outcome, e |-> e]
    ELSE sessionOf(e, normalize(file, t))

\* ------------------------------------------------------------------------
\* Initial state: the script has been loaded, no session was started
\* ------------------------------------------------------------------------
NotNormalized == [done |-> FALSE, threw |-> FALSE, out |-> <<>>,
                  again |-> FALSE, first |-> <<>>]
\* again: the operation before it was the same call of calculateResult;
\* found: what a load found
Op(op, ret) == [op |-> op, ret |-> ret, result |-> NoResult, again |-> FALSE,
                found |-> ""]

EngineIdle ==
    /\ questions = <<>>
    /\ totalQuestions = 0
    /\ currentIndex = 0
    /\ userAnswers = <<>>
    /\ timer = NewTimer
    /\ currentQuestionStart = 0
    /\ now = PageLoadTime
    /\ timeouts = {}
    /\ starts = 0
    /\ obs = NewObs
    /\ lastOp = Op("load", "void")
    /\ page = NewPage

Init ==
    /\ EngineIdle
    /\ rawData = Null
    /\ normalized = NotNormalized

\* ------------------------------------------------------------------------
\* Actions: one per engine method called by a handler, one for a timeout
\* firing, one for the clock
\* ------------------------------------------------------------------------
adapterVars == <<rawData, normalized>>

\* a session may record MaxFlushes intervals, and two more than it has
\* questions (three questions can be answered one after the other)
FlushBudget ==
    SumTo(obs.flushes, Len(obs.flushes)) < Max(MaxFlushes, Len(questions) + 2)

DoInit(qs) ==
    LET r == init(Eng, qs)
    IN /\ r.ret = "true" => obs.sessions < MaxSessions
       /\ Commit(r.e)
       /\ lastOp' = Op("init", r.ret)
       /\ UNCHANGED <<now, adapterVars, page>>

DoStartTimer ==
    /\ starts < MaxStarts
    /\ Commit(startTimer(Eng, now))
    /\ lastOp' = Op("startTimer", "void")
    /\ UNCHANGED <<now, adapterVars, page>>

DoStopTimer ==
    /\ Commit(clientStopTimer(Eng))
    /\ lastOp' = Op("stopTimer", "void")
    /\ UNCHANGED <<now, adapterVars, page>>

\* a due timeout fires and step runs; each callback that is invoked
\* behaves as one of the given kinds, one that calls init passing one of
\* the given banks
Tick(tickKinds, endKinds, banks) ==
    \E x \in timeouts :
    \E tickKind \in IF timer.isActive THEN tickKinds ELSE {"none"} :
    \E qsTick \in IF tickKind = "init" THEN banks ELSE {Null} :
    \E endKind \in IF reachesEnd(Eng, x.g, now, tickKind, qsTick, "polity")
                   THEN endKinds ELSE {"none"} :
    \E qs \in IF tickKind = "init" THEN {qsTick}
              ELSE IF endKind = "init" THEN banks ELSE {Null} :
        LET r == step(Eng, x.g, now, tickKind, endKind, qs, "polity")
        IN /\ x.due <= now
           /\ r.starts <= MaxStarts
           /\ r.obs.sessions <= MaxSessions
           /\ Commit(r)
           /\ lastOp' = Op("tick", IF stepThrows(Eng, x.g, now, tickKind, endKind, qs, "polity")
                                   THEN "throw" ELSE "void")
           /\ UNCHANGED <<now, adapterVars, page>>

DoSubmitAnswer(answerIndex) ==
    LET r == submitAnswer(Eng, answerIndex, now)
    IN /\ FlushBudget
       /\ Commit(r.e)
       /\ lastOp' = Op("submitAnswer", IF r.threw THEN "throw" ELSE "void")
       /\ UNCHANGED <<now, adapterVars, page>>

DoNextQuestion ==
    LET r == nextQuestion(Eng, now)
    IN /\ FlushBudget
       /\ Commit(r.e)
       /\ lastOp' = Op("nextQuestion", IF r.ret THEN "true" ELSE "false")
       /\ UNCHANGED <<now, adapterVars, page>>

DoPrevQuestion ==
    LET r == prevQuestion(Eng, now)
    IN /\ FlushBudget
       /\ Commit(r.e)
       /\ lastOp' = Op("prevQuestion", IF r.ret THEN "true" ELSE "false")
       /\ UNCHANGED <<now, adapterVars, page>>

DoJumpTo(index) ==
    LET r == jumpTo(Eng, index, now)
    IN /\ Commit(r.e)
       /\ lastOp' = Op("jumpTo", IF r.ret THEN "true" ELSE "false")
       /\ UNCHANGED <<now, adapterVars, page>>

DoCalculateResult(subjectId) ==
    LET r == calculateResult(Eng, subjectId, now)
    IN /\ Commit(r.e)
       /\ lastOp' = [op |-> "calculateResult", ret |-> "result", result |-> r.ret,
                     again |-> lastOp.op = "calculateResult"
                               /\ lastOp.result.subject = subjectId,
                     found |-> ""]
       /\ UNCHANGED <<now, adapterVars, page>>

\* the clock moves on between two handlers, up to the horizon; a due
\* timeout may fire late
Advance(d, seconds) ==
    /\ now + d <= PageLoadTime + seconds * 1000
    /\ now' = now + d
    /\ obs' = IF Anchored(obs) /\ currentIndex + 1 \in DOMAIN obs.dwell
              THEN [obs EXCEPT !.dwell[currentIndex + 1] = @ + d, !.open = @ + d]
              ELSE obs
    /\ lastOp' = Op("advance", "void")
    /\ UNCHANGED <<questions, totalQuestions, currentIndex, userAnswers, timer,
                   currentQuestionStart, timeouts, starts, adapterVars, page>>

\* Main.startQuiz(subjectId) from the point where the file has been
\* fetched and normalized into qs (main.js:526-557): init, and on success
\* startTimer with the page's two callbacks
StartQuiz(qs) ==
    LET r == init(Eng, qs)
    IN /\ r.ret = "true" => obs.sessions < MaxSessions /\ starts < MaxStarts
       /\ Commit(IF r.ret = "true" THEN startTimer(r.e, now) ELSE r.e)
       /\ lastOp' = Op("startQuiz", r.ret)
       /\ UNCHANGED <<now, adapterVars, page>>

\* Main.startQuiz(subjectId) from the point where the file has been
\* fetched (main.js:523-557): Adapter.normalize, init on its output, and on
\* success startTimer; an exception of normalize or init is caught and
\* logged by the handler
StartQuizFromFile ==
    LET n == normalize(rawData, now)
        r == init(Eng, Arr(n.out))
        started == ~n.threw /\ r.ret = "true"
    IN /\ started => obs.sessions < MaxSessions /\ starts < MaxStarts
       /\ normalized' = [NotNormalized EXCEPT !.done = TRUE, !.threw = n.threw,
                                              !.out = n.out]
       /\ Commit(IF n.threw THEN Eng
                 ELSE IF started THEN startTimer(r.e, now) ELSE r.e)
       /\ lastOp' = Op("startQuiz", IF n.threw THEN "throw" ELSE r.ret)
       /\ UNCHANGED <<now, rawData, page>>

\* Main.startQuiz(subjectId) of the page that loads through
\* Engine.startSession (engine.js:937-979), from the point where the fetch
\* has ended: on success the subject is noted, the quiz view entered and the
\* page's own clock started (_startQuizTimer); on false the handler throws
\* and catches its own error, and only a toast is shown.  At most `most`
\* loads succeed in one behaviour
StartSession(subjectId, outcome, file, most) ==
    \E r \in {startSession(Eng, outcome, file, now)} :
       /\ r.ret = "true" => obs.sessions < most
       /\ Commit(r.e)
       /\ page' = [page EXCEPT
                      !.sessionStart = IF r.began THEN now ELSE @,
                      !.activeQuizSubject = IF r.ret = "true" THEN subjectId ELSE @,
                      !.currentView = IF r.ret = "true" THEN "quiz" ELSE @,
                      !.quizTimerInterval = IF r.ret = "true" THEN TRUE ELSE @]
       /\ lastOp' = [Op("startSession", r.ret) EXCEPT !.found = r.found]
       /\ UNCHANGED <<now, adapterVars>>

\* Main.handleAnswer(idx) (main.js:570-575)
HandleAnswer(idx) == DoSubmitAnswer(idx)

\* Main.finishQuiz() pressed by the user (main.js:580-587); the active
\* subject is chosen where it is read
FinishQuiz(subjectId) ==
    LET r == finishQuiz(Eng, subjectId, now)
    IN /\ Commit(r.e)
       /\ lastOp' = [op |-> "finishQuiz", ret |-> "result", result |-> r.ret,
                     again |-> FALSE, found |-> ""]
       /\ UNCHANGED <<now, adapterVars, page>>

\* Store.saveResult(result) has been called and its promise is pending
saveStarted(p) == [p EXCEPT !.saveCalls = @ + 1, !.saving = @ + 1]

\* Main.startQuiz(subjectId) of a page with a Store, from the point where
\* the file has been fetched and normalized into qs (main.js:526-557): a
\* subject card of the dashboard was clicked; on success the subject is
\* noted and the quiz view entered.  The calls of Store.saveResult are
\* counted from here
StartQuizOnPage(subjectId, qs) ==
    LET r == init(Eng, qs)
    IN /\ page.currentView # "quiz"
       /\ r.ret = "true" => obs.sessions < MaxSessions /\ starts < MaxStarts
       /\ Commit(IF r.ret = "true" THEN startTimer(r.e, now) ELSE r.e)
       /\ page' = IF r.ret = "true"
                  THEN [page EXCEPT !.activeQuizSubject = subjectId,
                                    !.currentView = "quiz",
                                    !.saveCalls = 0]
                  ELSE page
       /\ lastOp' = Op("startQuiz", r.ret)
       /\ UNCHANGED <<now, adapterVars>>

\* Main.finishQuiz() of a page with a Store, up to its await
\* (main.js:580-593): the Submit button of the quiz view was pressed; the
\* timer is stopped, the result calculated and Store.saveResult called
FinishAndSave ==
    LET r == finishQuiz(Eng, page.activeQuizSubject, now)
    IN /\ page.currentView = "quiz"
       /\ page.saveCalls < MaxSaves
       /\ Commit(r.e)
       /\ page' = saveStarted(page)
       /\ lastOp' = [Op("finishQuiz", "result") EXCEPT !.result = r.ret]
       /\ UNCHANGED <<now, adapterVars>>

\* a due timeout fires and step runs with the callbacks of a page with a
\* Store (main.js:546-552): when the countdown ends, finishQuiz(true) runs
\* up to its await
TickOnPage ==
    \E x \in timeouts :
        LET subjectId == page.activeQuizSubject
            ends == reachesEnd(Eng, x.g, now, "none", Null, subjectId)
            r == step(Eng, x.g, now, "none", "finish", Null, subjectId)
        IN /\ x.due <= now
           /\ ends => page.saveCalls < MaxSaves
           /\ Commit(r)
           /\ page' = IF ends THEN saveStarted(page) ELSE page
           /\ lastOp' = Op("tick", IF ends THEN "end" ELSE "void")
           /\ UNCHANGED <<now, adapterVars>>

\* a promise of Store.saveResult is settled and finishQuiz runs to its end
\* (main.js:593-605): the result view is shown
SaveDone ==
    /\ page.saving > 0
    /\ page' = [page EXCEPT !.saving = @ - 1, !.currentView = "result"]
    /\ lastOp' = Op("saveDone", "void")
    /\ UNCHANGED <<questions, totalQuestions, currentIndex, userAnswers, timer,
                   currentQuestionStart, now, timeouts, starts, obs, adapterVars>>

\* the page's callbacks (main.js:546-552): the tick callback updates the
\* displayed time, the end callback is finishQuiz(true)
PageTickKinds == {"none"}
PageEndKinds == {"finish"}

\* Adapter.normalize(rawData) is called on the file that was fetched
Normalize ==
    LET r == normalize(rawData, now)
    IN /\ ~normalized.done
       /\ normalized' = [NotNormalized EXCEPT !.done = TRUE, !.threw = r.threw,
                                              !.out = r.out]
       /\ UNCHANGED <<questions, totalQuestions, currentIndex, userAnswers, timer,
                      currentQuestionStart, now, timeouts, starts, obs, lastOp, rawData,
                      page>>

\* JSON.parse(JSON.stringify(x)) of a value without NaN or an infinity: a
\* property whose value is undefined is left out, an undefined array entry
\* becomes null
RECURSIVE reserialize(_)
reserialize(x) ==
    CASE x.t = "arr" ->
             Arr([i \in 1..Len(x.v) |-> IF x.v[i] = Undefined THEN Null
                                        ELSE reserialize(x.v[i])])
      [] x.t = "obj" ->
             LET kept == SelectSeq(x.v, LAMBDA p : p.v # Undefined)
             IN Obj([i \in 1..Len(kept) |-> KV(kept[i].k, reserialize(kept[i].v))])
      [] OTHER -> x

\* the output of normalize written out, read back, wrapped as
\* { questions: [...] } and given to normalize again
Renormalize ==
    LET wrapped == Obj(<<KV(kQuestions, reserialize(Arr(normalized.out)))>>)
        r == normalize(wrapped, now)
    IN /\ normalized.done
       /\ ~normalized.threw
       /\ ~normalized.again
       /\ rawData' = wrapped
       /\ normalized' = [done |-> TRUE, threw |-> r.threw, out |-> r.out,
                         again |-> TRUE, first |-> normalized.out]
       /\ UNCHANGED <<questions, totalQuestions, currentIndex, userAnswers, timer,
                      currentQuestionStart, now, timeouts, starts, obs, lastOp, page>>

\* the application: the page's handlers driving the engine.  The
\* specifications after it are its parts: each keeps the handlers and the
\* inputs that a group of properties depends on.
Next ==
    \/ \E qs \in InitArgs : StartQuiz(qs)
    \/ \E idx \in AnswerIndices : HandleAnswer(idx)
    \/ DoNextQuestion
    \/ DoPrevQuestion
    \/ \E subjectId \in SubjectIds : FinishQuiz(subjectId)
    \/ Tick(PageTickKinds, PageEndKinds, {})
    \/ \E d \in ClockSteps : Advance(d, MaxSeconds)

Spec == Init /\ [][Next]_vars

\* the engine's timer under any client: the methods called in any order,
\* also from inside the callbacks, the clock moving by whole seconds
NextTimer ==
    \/ \E qs \in TimerBanks \cup InvalidInitArgs : DoInit(qs)
    \/ DoStartTimer
    \/ DoStopTimer
    \/ Tick(CallbackKinds, CallbackKinds, TimerBanks)
    \/ DoCalculateResult("polity")
    \/ Advance(1000, MaxTimerSeconds)

SpecTimer == Init /\ [][NextTimer]_vars

\* the page's timer while the tab may be suspended: the quiz is started
\* and finished by the page, the clock moves by half seconds, and a due
\* timeout fires at once or any number of half seconds late
NextSuspend ==
    \/ \E qs \in TaggedBanks \cup InvalidInitArgs \cup NullFirstBanks : StartQuiz(qs)
    \/ \E subjectId \in SubjectIds : FinishQuiz(subjectId)
    \/ Tick(PageTickKinds, PageEndKinds, {})
    \/ Advance(500, MaxTimerSeconds)

SpecSuspend == Init /\ [][NextSuspend]_vars

\* the answer log of a quiz: the page's handlers that write it, on a full
\* bank, with the clock and the page's timer (the times logged do not
\* depend on the option selected: the user selects the first)
NextAnswers ==
    \/ \E qs \in {FullBank, Null} : StartQuiz(qs)
    \/ HandleAnswer(Num(0))
    \/ DoNextQuestion
    \/ DoPrevQuestion
    \/ Tick(PageTickKinds, PageEndKinds, {})
    \/ \E d \in ClockSteps : Advance(d, MaxSeconds)

SpecAnswers == Init /\ [][NextAnswers]_vars

\* the first quiz of the page is started, on a full bank
StartFirstQuiz == obs.sessions = 0 /\ StartQuiz(FullBank)

\* the question palette of one quiz: the user jumps to questions and
\* answers them while the clock moves (the countdown does not end before
\* the clock's horizon, and the ticks of the timer change neither the
\* answer log nor the pointer)
NextPalette ==
    \/ StartFirstQuiz
    \/ HandleAnswer(Num(0))
    \/ \E index \in JumpTargets : DoJumpTo(index)
    \/ \E d \in ClockSteps : Advance(d, MaxSeconds)

SpecPalette == Init /\ [][NextPalette]_vars

\* the user moving through a quiz question by question: the handlers that
\* move the pointer forward and back, answers, the clock, and the result
NextNavigate ==
    \/ StartQuiz(FullBank)
    \/ HandleAnswer(Num(0))
    \/ DoNextQuestion
    \/ DoPrevQuestion
    \/ FinishQuiz("polity")
    \/ \E d \in ClockSteps : Advance(d, MaxSeconds)

SpecNavigate == Init /\ [][NextNavigate]_vars

\* the page that loads its quiz through Engine.startSession: the file of a
\* subject is fetched with any outcome at any time and leads to one quiz,
\* the user answers and moves between the questions, the clock moves
NextSession ==
    \/ \E subjectId \in SessionSubjects, outcome \in LoadOutcomes :
       \E file \in IF outcome = "loaded" THEN SessionFiles ELSE {Null} :
           StartSession(subjectId, outcome, file, 1)
    \/ HandleAnswer(Num(0))
    \/ DoNextQuestion
    \/ DoPrevQuestion
    \/ \E d \in ClockSteps : Advance(d, MaxSeconds)

SpecSession == Init /\ [][NextSession]_vars

\* the page with its Store: quizzes of one question are started from the
\* dashboard, answered, and finished by the user or by the countdown, and
\* the saves settle at any later time
NextSave ==
    \/ \E qs \in TimerBanks : StartQuizOnPage("polity", qs)
    \/ HandleAnswer(Num(0))
    \/ FinishAndSave
    \/ TickOnPage
    \/ SaveDone
    \/ Advance(1000, MaxTimerSeconds)

SpecSave == Init /\ [][NextSave]_vars

\* the result asked for at any time and any number of times: a client that
\* starts one quiz, answers, moves on and calls calculateResult while the
\* countdown runs
NextRecalculate ==
    \/ StartFirstQuiz
    \/ \E idx \in AnswerIndices : HandleAnswer(idx)
    \/ DoNextQuestion
    \/ \E subjectId \in {"polity", "quant"} : DoCalculateResult(subjectId)
    \/ Tick(PageTickKinds, PageEndKinds, {})
    \/ \E d \in ClockSteps : Advance(d, MaxSeconds)

SpecRecalculate == Init /\ [][NextRecalculate]_vars

\* the result of a quiz: the handlers that write the answer log and the one
\* that calculates the result, on every bank and subject, the clock standing
NextResult ==
    \/ \E qs \in InitArgs : StartQuiz(qs)
    \/ \E idx \in AnswerIndices : HandleAnswer(idx)
    \/ DoNextQuestion
    \/ DoPrevQuestion
    \/ \E subjectId \in SubjectIds : FinishQuiz(subjectId)

SpecResult == Init /\ [][NextResult]_vars

\* a quiz from the file to the result: the file is normalized and the quiz
\* started on what normalize returns, the user answers and moves on, and
\* the result is calculated for a subject, the clock standing
InitQuiz ==
    /\ EngineIdle
    /\ rawData \in QuizFiles
    /\ normalized = NotNormalized

NextQuiz ==
    \/ StartQuizFromFile
    \/ \E idx \in AnswerIndices : HandleAnswer(idx)
    \/ DoNextQuestion
    \/ \E subjectId \in {"quant", "polity"} : FinishQuiz(subjectId)

SpecQuiz == InitQuiz /\ [][NextQuiz]_vars

\* the Adapter applied to the content of any file, and then to its own
\* output, at once or later
InitAdapter ==
    /\ EngineIdle
    /\ rawData \in RawInputs
    /\ normalized = NotNormalized

NextAdapter ==
    \/ Normalize
    \/ Renormalize
    \/ Advance(1000, MaxSeconds)

SpecAdapter == InitAdapter /\ [][NextAdapter]_vars

\* ------------------------------------------------------------------------
\* Properties of the timer
\* ------------------------------------------------------------------------
\* what the callbacks given to the last startTimer have seen of a
\* countdown of T seconds: the tick callback n <= T times with the values
\* T-1, T-2, .., T-n in that order, remaining being T-n; while n < T the
\* timer is running, a timeout of its step is pending and the end callback
\* has not been invoked; once n = T the end callback has been invoked
\* exactly once, the timer is stopped and no timeout is pending
CountdownAsPromised ==
    LET T == timer.totalSeconds
        n == Len(obs.ticks)
    IN /\ n <= T
       /\ \A i \in 1..n : obs.ticks[i] = T - i
       /\ timer.remaining = T - n
       /\ obs.expires = IF n = T THEN 1 ELSE 0
       /\ n = T => ~timer.isActive /\ timer.intervalId = 0 /\ timeouts = {}
       /\ n < T => timer.isActive /\ \E x \in timeouts : x.g = starts

\* C1: a timer started on the full countdown of T seconds that a successful
\* init has set, and neither stopped nor restarted since, invokes the tick
\* callback exactly T times with T-1, T-2, .., 0 in that order, then the
\* end callback exactly once, and is stopped after that with neither
\* callback invoked again (whenever the timeouts fire, on time or late)
TimerTicksExactly == obs.clean => CountdownAsPromised

\* the same for a timer that is started when no timeout of an earlier
\* startTimer is pending
TimerCountsDown == obs.clean /\ obs.alone => CountdownAsPromised

\* a countdown of at least two seconds has run to its end
TimerCountedDown ==
    /\ obs.clean
    /\ obs.alone
    /\ timer.totalSeconds >= 2
    /\ Len(obs.ticks) = timer.totalSeconds
    /\ obs.expires = 1
    /\ lastOp.op = "tick"

\* C2: while the timer is active at most one timeout is pending (every
\* pending timeout of an active timer decrements remaining when it fires)
AtMostOneLiveTick ==
    timer.isActive => Cardinality(timeouts) <= 1

\* C3: stopTimer() leaves the timer not running and without a handle, a
\* second call changes nothing, and no callback is invoked and remaining
\* is not decremented between the return of a stopTimer() and the next
\* startTimer
StopTimerIsFinal ==
    /\ lastOp.op = "stopTimer" =>
           /\ ~timer.isActive
           /\ timer.intervalId = 0
           /\ clientStopTimer(Eng) = Eng
    /\ ~obs.late

\* C10: right after a successful init currentIndex is 0, the answer log
\* has one empty slot per question, the timer is not running, no timeout
\* is pending, and remaining = totalSeconds = questions x allowance
InitResetsEverything ==
    lastOp.op = "init" /\ lastOp.ret = "true" =>
        /\ currentIndex = 0
        /\ totalQuestions = Len(questions)
        /\ userAnswers = [i \in 1..Len(questions) |-> Null]
        /\ ~timer.isActive
        /\ timer.intervalId = 0
        /\ timeouts = {}
        /\ timer.remaining = timer.totalSeconds
        /\ timer.totalSeconds \in {Len(questions) * Gs1Seconds,
                                   Len(questions) * CsatSeconds}

\* C15: an exception thrown by the tick callback or by the end callback
\* does not leave the run of step, and the countdown goes on as promised:
\* remaining is decremented once per tick, the next tick is scheduled, and
\* the timer reaches 0 and stops
CallbackErrorsAreContained ==
    /\ ~(lastOp.op = "tick" /\ lastOp.ret = "throw")
    /\ TimerCountsDown

\* C16: a tick that fires more than 1000 ms after the time expected
\* decrements remaining by exactly 1 and re-anchors the expectation to the
\* current time, and while the countdown goes on the next tick is due no
\* sooner than 1000 ms after it
NoBurstAfterSuspension ==
    [][lastOp'.op = "tick" /\ timer.isActive /\ now - timer.expected > 1000 =>
           /\ timer'.remaining = timer.remaining - 1
           /\ timer'.expected = IF timer'.isActive THEN now + 1000 ELSE now
           /\ timer'.isActive => \A y \in timeouts' : y.due >= now + 1000]_vars

\* C19: after a quiz has been started (init having succeeded) totalSeconds
\* is questions x the allowance per question: the CSAT allowance when a tag
\* of the first question is "math" or "aptitude", the general-studies
\* allowance otherwise, also when the first question has no tags
AllowanceIsByFirstTags ==
    lastOp.op = "startQuiz" /\ lastOp.ret = "true" =>
        LET tags == Get(questions[1], kTags)
            csat == /\ IsArray(tags)
                    /\ \E i \in 1..Len(tags.v) :
                           tags.v[i] \in {Str(sMath), Str(sAptitude)}
        IN /\ timer.totalSeconds =
                  Len(questions) * (IF csat THEN CsatSeconds ELSE Gs1Seconds)
           /\ timer.remaining = timer.totalSeconds

\* a quiz of two questions was started on a first question whose second
\* tag is "aptitude"
StartedOnAptitude ==
    /\ lastOp.op = "startQuiz"
    /\ lastOp.ret = "true"
    /\ Len(questions) = 2
    /\ Get(questions[1], kTags) = Arr(<<Str(<<"x">>), Str(sAptitude)>>)
    /\ timer.totalSeconds = 2 * CsatSeconds

\* the countdown is on schedule: the tick that comes next, the k-th since
\* startTimer, is expected and due k x 1000 ms after startTimer
OnSchedule ==
    /\ timer.expected = timer.startTime + (Len(obs.ticks) + 1) * 1000
    /\ \A x \in timeouts : x.due = timer.expected

\* a tick of a countdown on schedule that fires at most 1000 ms late and
\* is not the last advances the expectation by exactly 1000 ms and
\* schedules the next tick max(0, 1000 - lateness) ms later, which leaves
\* the countdown on schedule
TickKeepsSchedule ==
    lastOp'.op = "tick" /\ timer.isActive /\ timer'.isActive
      /\ OnSchedule /\ now - timer.expected <= 1000 =>
        /\ timer'.expected = timer.expected + 1000
        /\ timeouts' # {}
        /\ \A y \in timeouts' :
               y.due = now + Max(0, 1000 - (now - timer.expected))
        /\ OnSchedule'

\* C29: a countdown is on schedule when startTimer returns, and every tick
\* of a countdown that is neither stopped nor restarted keeps it on schedule
\* when it fires at most 1000 ms late: as long as no tick is more than
\* 1000 ms late, the k-th tick is due k x 1000 ms after startTimer however
\* late the ticks before it were
DriftDoesNotAccumulate ==
    [][/\ lastOp'.op = "startTimer" => OnSchedule'
       /\ obs.clean /\ obs'.clean => TickKeepsSchedule]_vars

\* the same for a timer that is started when no timeout of an earlier
\* startTimer is pending
DriftIsCompensatedAlone ==
    [][/\ lastOp'.op = "startTimer" /\ obs'.alone => OnSchedule'
       /\ obs.clean /\ obs'.clean /\ obs.alone => TickKeepsSchedule]_vars

\* the same for the timer of the page, whose ticks fire on time or any
\* number of half seconds late
DriftIsCompensatedOnPage ==
    [][/\ lastOp'.op = "startQuiz" /\ lastOp'.ret = "true" => OnSchedule'
       /\ TickKeepsSchedule]_vars

\* the second tick of the page's countdown has fired 500 ms late and was
\* not the last: the third is due 3000 ms after startTimer
SecondTickLateThirdOnTime ==
    /\ lastOp.op = "tick"
    /\ timer.isActive
    /\ Len(obs.ticks) = 2
    /\ now = timer.startTime + 2500
    /\ timeouts # {}
    /\ \A x \in timeouts : x.due = timer.startTime + 3000

\* C11: in every state of the engine, init called with null, undefined, an
\* empty list or a value that is not an array returns false and changes
\* nothing: the questions, the answer log, the pointer, the timer with its
\* pending timeouts and the count of sessions started stay as they were
\* (an Idle engine stays Idle)
InvalidInitIsRefused ==
    \A qs \in InvalidInitArgs : init(Eng, qs) = [ret |-> "false", e |-> Eng]

\* init has just refused its argument while a session was running
InitRefusedWhileRunning ==
    /\ lastOp.op = "init"
    /\ lastOp.ret = "false"
    /\ Len(questions) > 0
    /\ timer.isActive
    /\ timeouts # {}
    /\ obs.sessions = 1

\* C22: init does not throw: for every argument, among them undefined,
\* values that are not arrays, and lists whose first element is null or has
\* no tags, the init of a quiz being started returns true or false
InitNeverThrows ==
    lastOp.op = "startQuiz" => lastOp.ret \in {"true", "false"}

\* C21: calculateResult called on an engine on which no init has succeeded
\* returns an error and no result (no record with score 0 and counts 0)
NeverInitialisedIsAnError ==
    lastOp.op = "calculateResult" /\ obs.sessions = 0 =>
        lastOp.ret = "error" /\ lastOp.result = NoResult

\* C36: whatever the order of init, startTimer, stopTimer, ticks and
\* calculateResult, also when startTimer is called on an engine without a
\* session or after the countdown has ended, remaining lies between 0 and
\* totalSeconds and the tick callback is never given a negative value
RemainingWithinCountdown ==
    /\ 0 <= timer.remaining
    /\ timer.remaining <= timer.totalSeconds
    /\ \A i \in 1..Len(obs.ticks) : obs.ticks[i] >= 0

\* ------------------------------------------------------------------------
\* Properties of the answer log
\* ------------------------------------------------------------------------
Abs(x) == IF x < 0 THEN -x ELSE x

\* timeSpent of question i in tenths of a second, 0 without a record
spentOn(answers, i) == IF answers[i] = Null THEN 0 ELSE answers[i].timeSpent

\* C4 (state): in a session whose timer was started before the first
\* answer, the timeSpent of every question is the whole time the question
\* has been displayed in all its visits up to its last submit or departure,
\* within 0.05 s for each interval recorded (each is rounded to 0.1 s)
TimeSpentIsSumOfVisits ==
    Anchored(obs) =>
        \A i \in 1..Len(userAnswers) :
            LET unrecorded == IF i = currentIndex + 1 THEN obs.open ELSE 0
            IN Abs(100 * spentOn(userAnswers, i) - (obs.dwell[i] - unrecorded))
                   <= 50 * obs.flushes[i]

\* C4 (step): within a session no step makes a question's timeSpent smaller
TimeSpentNeverDecreases ==
    [][obs'.sessions = obs.sessions /\ Len(userAnswers') = Len(userAnswers) =>
           \A i \in 1..Len(userAnswers) :
               spentOn(userAnswers', i) >= spentOn(userAnswers, i)]_vars

\* C4: an answer submitted on a question, the question left, visited again
\* and answered again leaves as its timeSpent the sum of the time of both
\* visits, and a question's timeSpent never decreases within a session
TimeSpentAccumulates == []TimeSpentIsSumOfVisits /\ TimeSpentNeverDecreases

\* question 1 was answered, left, visited again for a time and answered
\* again, the first visit having taken time as well
AnsweredAgainAfterReturn ==
    /\ Anchored(obs)
    /\ Len(userAnswers) >= 2
    /\ obs.revisit[1] = 3
    /\ currentIndex = 0
    /\ lastOp.op = "submitAnswer"
    /\ obs.dwell[1] >= 1000
    /\ obs.dwell[2] > 0
    /\ spentOn(userAnswers, 1) >= 10

\* C5: in a session whose timer was started before the first answer, the
\* sum of timeSpent over the answer log is the time from startTimer to the
\* last submit or successful navigation, within 0.05 s for each interval
\* recorded, and the anchor currentQuestionStart is the time of that last
\* submit or navigation (of startTimer if there was none)
EveryIntervalCountedOnce ==
    Anchored(obs) =>
        LET n == Len(userAnswers)
            total == SumTo([i \in 1..n |-> spentOn(userAnswers, i)], n)
            lastFlush == now - obs.open
        IN /\ Abs(100 * total - (lastFlush - timer.startTime))
                  <= 50 * SumTo(obs.flushes, n)
           /\ currentQuestionStart = lastFlush

\* both flush paths have run, on different questions, each after some time
BothFlushPathsRan ==
    /\ Anchored(obs)
    /\ Len(userAnswers) >= 2
    /\ obs.flushes[1] >= 2
    /\ obs.flushes[2] >= 1
    /\ obs.dwell[1] > 0
    /\ obs.dwell[2] > 0
    /\ obs.revisit[1] >= 2
    /\ userAnswers[2] # Null
    /\ lastOp.op \in {"nextQuestion", "prevQuestion"}
    /\ lastOp.ret = "true"

\* C25: jumpTo(index) with 0 <= index < number of questions returns true,
\* adds the time since the current question was displayed to the current
\* question's timeSpent (also when it has no answer), leaves the other
\* records alone, moves the pointer to index and sets the display timestamp
\* to the current time; with any other index it returns false and changes
\* nothing
JumpToFlushesThenMoves ==
    [][\A index \in JumpTargets : DoJumpTo(index) =>
           IF index >= 0 /\ index < Len(questions)
           THEN /\ lastOp'.ret = "true"
                /\ spentOn(userAnswers', currentIndex + 1) =
                       spentOn(userAnswers, currentIndex + 1)
                       + RoundDiv(now - currentQuestionStart, 100)
                /\ \A j \in 1..Len(questions) :
                       j # currentIndex + 1 => userAnswers'[j] = userAnswers[j]
                /\ currentIndex' = index
                /\ currentQuestionStart' = now
           ELSE /\ lastOp'.ret = "false"
                /\ UNCHANGED <<questions, totalQuestions, currentIndex, userAnswers,
                               timer, currentQuestionStart, timeouts>>]_vars

\* the index selected for question i, null without a record
selectedOn(answers, i) == IF answers[i] = Null THEN Null ELSE answers[i].selected

\* C33: no method but init changes the question list; the index selected
\* for a question changes only by a submitAnswer made while the question is
\* the current one; nextQuestion and prevQuestion leave the selected index
\* of every question as it was; submitAnswer leaves every record but the
\* current question's as it was and does not move the pointer
SelectionChangesOnlyBySubmit ==
    [][lastOp'.op # "startQuiz" =>
           /\ questions' = questions
           /\ totalQuestions' = totalQuestions
           /\ Len(userAnswers') = Len(userAnswers)
           /\ \A i \in 1..Len(userAnswers) :
                  selectedOn(userAnswers', i) # selectedOn(userAnswers, i) =>
                      lastOp'.op = "submitAnswer" /\ i = currentIndex + 1
           /\ lastOp'.op \in {"nextQuestion", "prevQuestion"} =>
                  \A i \in 1..Len(userAnswers) :
                      selectedOn(userAnswers', i) = selectedOn(userAnswers, i)
           /\ lastOp'.op = "submitAnswer" =>
                  /\ currentIndex' = currentIndex
                  /\ \A i \in 1..Len(userAnswers) :
                         i # currentIndex + 1 => userAnswers'[i] = userAnswers[i]]_vars

\* the first question was answered and left, the second answered with
\* another option and left, and the user is back on the first question
BackOnAnAnsweredQuestion ==
    /\ Len(userAnswers) >= 2
    /\ lastOp.op = "prevQuestion"
    /\ lastOp.ret = "true"
    /\ currentIndex = 0
    /\ selectedOn(userAnswers, 1) = Num(1)
    /\ selectedOn(userAnswers, 2) = Num(0)

\* the engine's state apart from the pending timeouts
engineState == <<questions, totalQuestions, currentIndex, userAnswers, timer,
                 currentQuestionStart>>

\* C31: once init has succeeded the pointer is the index of a question;
\* nextQuestion on the last question and prevQuestion on the first return
\* false and change nothing (the pointer, the answer log and the display
\* timestamp stay as they were), and everywhere else they return true and
\* move the pointer by exactly one
PointerMovesByOneOrNotAtAll ==
    /\ [](obs.sessions > 0 => currentIndex >= 0 /\ currentIndex < Len(questions))
    /\ [][lastOp'.op = "nextQuestion" /\ obs.sessions > 0 =>
              IF currentIndex = Len(questions) - 1
              THEN /\ lastOp'.ret = "false"
                   /\ UNCHANGED <<engineState, timeouts>>
                   /\ obs'.flushes = obs.flushes
              ELSE /\ lastOp'.ret = "true"
                   /\ currentIndex' = currentIndex + 1]_vars
    /\ [][lastOp'.op = "prevQuestion" /\ obs.sessions > 0 =>
              IF currentIndex = 0
              THEN /\ lastOp'.ret = "false"
                   /\ UNCHANGED <<engineState, timeouts>>
                   /\ obs'.flushes = obs.flushes
              ELSE /\ lastOp'.ret = "true"
                   /\ currentIndex' = currentIndex - 1]_vars

\* nextQuestion was refused on the last question, which had been displayed
\* for a time and keeps its display timestamp
RefusedAtTheLastQuestion ==
    /\ obs.sessions > 0
    /\ lastOp.op = "nextQuestion"
    /\ lastOp.ret = "false"
    /\ currentIndex = Len(questions) - 1
    /\ currentIndex > 0
    /\ currentQuestionStart < now

\* ------------------------------------------------------------------------
\* Properties of loading a session
\* ------------------------------------------------------------------------
\* the load just made could not lead to a session: the file is missing, the
\* fetch or the parse failed, the Adapter is absent, or normalize found no
\* usable question in the file (it threw or returned an empty list)
NothingToLoad == lastOp.found # "questions"

\* C35: startSession returns false, without an exception, when the file is
\* missing, the fetch or the JSON parse fails, the Adapter is absent or
\* normalize finds no usable question; the engine's state is then as it was
\* before the call, and Main.startQuiz neither enters the quiz view nor
\* starts its clock
FailedLoadStartsNothing ==
    [][lastOp'.op = "startSession" /\ NothingToLoad' =>
           /\ lastOp'.ret = "false"
           /\ UNCHANGED <<engineState, timeouts, starts>>
           /\ obs'.sessions = obs.sessions
           /\ page' = page]_vars

\* a load has failed while a quiz was under way: the quiz is still there,
\* with its answer and on its second question
FailedLoadDuringAQuiz ==
    /\ lastOp.op = "startSession"
    /\ lastOp.ret = "false"
    /\ NothingToLoad
    /\ obs.sessions = 1
    /\ page.currentView = "quiz"
    /\ Len(questions) = 2
    /\ currentIndex = 1
    /\ userAnswers[1] # Null

\* C37: in whatever order init, startTimer, submitAnswer, nextQuestion and
\* prevQuestion are called, also when an answer is submitted or a question
\* left before startTimer was ever called (the page that loads through
\* startSession never calls it), the timeSpent of every record is at most
\* the time that has passed since the session's init (each interval
\* recorded being rounded to 0.1 s)
TimeSpentWithinSession ==
    obs.sessions > 0 =>
        \A i \in 1..Len(userAnswers) :
            100 * spentOn(userAnswers, i)
                <= (now - page.sessionStart) + 50 * obs.flushes[i]

\* ------------------------------------------------------------------------
\* Properties of the result
\* ------------------------------------------------------------------------
\* the marks of the scheme calculateResult selects
correctMarksFor(subjectId, qs) == IF isCsatSchema(subjectId, qs) THEN CsatCorrect ELSE Gs1Correct
wrongMarksFor(subjectId, qs) == IF isCsatSchema(subjectId, qs) THEN CsatWrong ELSE Gs1Wrong

\* C6: the score of the result just calculated is max(0, round(correct x
\* correctMarks - wrong x wrongMarks, 2)) for the counts of the result and
\* the marks of the scheme selected; it is not negative, and it is 0 when
\* wrong x wrongMarks > correct x correctMarks
ScoreIsClampedRounding ==
    lastOp.op = "finishQuiz" =>
        LET r == lastOp.result
            raw == r.correct * correctMarksFor(r.subject, questions)
                   - r.wrong * wrongMarksFor(r.subject, questions)
        IN /\ r.score = (IF raw <= 0 THEN 0 ELSE (raw + 5) \div 10)
           /\ r.score >= 0
           /\ raw < 0 => r.score = 0

\* a result whose raw score is negative
NegativeRawScore ==
    /\ lastOp.op = "finishQuiz"
    /\ lastOp.result.wrong >= 1
    /\ lastOp.result.correct = 0
    /\ lastOp.result.score = 0

\* the questions of the session by what the answer log holds for them
SkippedSet == {i \in 1..Len(questions) :
                  userAnswers[i] = Null \/ userAnswers[i].selected = Null}
CorrectSet == {i \in 1..Len(questions) \ SkippedSet :
                  userAnswers[i].selected = Get(questions[i], kCorrectIndex)}
WrongSet == (1..Len(questions) \ SkippedSet) \ CorrectSet

\* C7: the result just calculated counts as skipped the questions without
\* a record or with an unanswered record, as correct those whose selected
\* index is the question's correctIndex, as wrong the others; the three
\* counts add up to the number of questions; and the mistakes list holds
\* the wrong questions in question order, one entry each, with the index
\* the user selected
EveryQuestionInOneClass ==
    lastOp.op = "finishQuiz" =>
        LET r == lastOp.result
        IN /\ r.skipped = Cardinality(SkippedSet)
           /\ r.correct = Cardinality(CorrectSet)
           /\ r.wrong = Cardinality(WrongSet)
           /\ r.correct + r.wrong + r.skipped = Len(questions)
           /\ Len(r.mistakes) = Cardinality(WrongSet)
           /\ \A i \in WrongSet :
                  LET k == Cardinality({j \in WrongSet : j <= i})
                  IN /\ r.mistakes[k].q = questions[i]
                     /\ r.mistakes[k].userSelected = userAnswers[i].selected

\* a result with a wrong answer and with a question that was visited and
\* left unanswered
WrongAndVisitedUnanswered ==
    /\ lastOp.op = "finishQuiz"
    /\ lastOp.result.wrong = 1
    /\ lastOp.result.skipped = 1
    /\ Len(lastOp.result.mistakes) = 1
    /\ \E i \in 1..Len(userAnswers) :
           userAnswers[i] # Null /\ userAnswers[i].selected = Null

\* C30: a nextQuestion or prevQuestion that leaves a question without an
\* answer adds the time since the question was displayed to the question's
\* record, which stays without an answer; and the result counts as skipped
\* every question whose record has no answer
ThinkingTimeIsRecorded ==
    /\ [][lastOp'.op \in {"nextQuestion", "prevQuestion"} /\ lastOp'.ret = "true"
            /\ currentIndex + 1 \in SkippedSet =>
              LET left == userAnswers'[currentIndex + 1]
              IN /\ left # Null
                 /\ left.selected = Null
                 /\ left.timeSpent = spentOn(userAnswers, currentIndex + 1)
                                       + RoundDiv(now - currentQuestionStart, 100)]_vars
    /\ [](lastOp.op = "finishQuiz" =>
            /\ lastOp.result.skipped = Cardinality(SkippedSet)
            /\ lastOp.result.correct + lastOp.result.wrong
                   = Len(questions) - Cardinality(SkippedSet))

\* the result of a quiz in which one question was answered and another was
\* looked at for more than half a second and left without an answer
ThinkingTimeOfSkipped ==
    /\ lastOp.op = "finishQuiz"
    /\ lastOp.result.skipped = 1
    /\ lastOp.result.correct + lastOp.result.wrong = 1
    /\ \E i \in 1..Len(userAnswers) :
           /\ userAnswers[i] # Null
           /\ userAnswers[i].selected = Null
           /\ userAnswers[i].timeSpent >= 6

\* what two results have in common when they say the same of a quiz
sameFindings(r1, r2) ==
    /\ r1.correct = r2.correct
    /\ r1.wrong = r2.wrong
    /\ r1.skipped = r2.skipped
    /\ r1.score = r2.score
    /\ r1.accuracy = r2.accuracy
    /\ r1.totalDuration = r2.totalDuration
    /\ r1.mistakes = r2.mistakes

\* C32: calculateResult changes nothing but the timer's activity: the
\* question list, the answer log, the pointer and the remaining time are as
\* before the call, and a call that follows a call with the same subjectId
\* returns the same counts, score, accuracy, totalDuration and mistakes
CalculateResultIsPure ==
    [][lastOp'.op = "calculateResult" =>
           /\ UNCHANGED <<questions, totalQuestions, userAnswers, currentIndex>>
           /\ timer'.remaining = timer.remaining
           /\ (lastOp.op = "calculateResult"
                 /\ lastOp.result.subject = lastOp'.result.subject =>
                   sameFindings(lastOp.result, lastOp'.result))]_vars

\* the result was calculated twice in a row for a quiz with a correct and a
\* wrong answer, part of the countdown having run
CalculatedTwiceMidway ==
    /\ lastOp.op = "calculateResult"
    /\ lastOp.again
    /\ lastOp.result.correct = 1
    /\ lastOp.result.wrong = 1
    /\ lastOp.result.totalDuration > 0
    /\ timer.remaining > 0
    /\ timer.remaining < timer.totalSeconds

\* C34: the totalDuration of the result just calculated is the sum of the
\* timeSpent of the questions counted as correct or wrong; the time
\* recorded on a question counted as skipped is not part of it
DurationIsTimeOfAnswered ==
    lastOp.op = "finishQuiz" =>
        LET n == Len(questions)
        IN lastOp.result.totalDuration =
               SumTo([i \in 1..n |-> IF i \in SkippedSet THEN 0
                                     ELSE spentOn(userAnswers, i)], n)

\* a result whose totalDuration is the time of the one answered question,
\* the other question having been looked at for a time and left unanswered
DurationLeavesOutSkipped ==
    /\ lastOp.op = "finishQuiz"
    /\ Cardinality(SkippedSet) = 1
    /\ \E i \in SkippedSet : spentOn(userAnswers, i) > 0
    /\ \E i \in 1..Len(questions) \ SkippedSet :
           /\ spentOn(userAnswers, i) > 0
           /\ lastOp.result.totalDuration = spentOn(userAnswers, i)

\* C17: the accuracy of the result just calculated is, in tenths of a
\* percent, the tenth nearest to correct / (correct + wrong) x 100 when a
\* question was answered and 0 when none was; it lies between 0 and 100
AccuracyIsRoundedShare ==
    lastOp.op = "finishQuiz" =>
        LET r == lastOp.result
            attempted == r.correct + r.wrong
        IN /\ attempted = 0 => r.accuracy = 0
           /\ attempted > 0 =>
                  2 * Abs(r.accuracy * attempted - 1000 * r.correct) <= attempted
           /\ r.accuracy >= 0
           /\ r.accuracy <= 1000

\* two of three answers were correct: 66.666.. is reported as 66.7
AccuracyRoundedUp ==
    /\ lastOp.op = "finishQuiz"
    /\ lastOp.result.correct = 2
    /\ lastOp.result.wrong = 1
    /\ lastOp.result.accuracy = 667

\* the quantitative and reasoning subjects
QuantitativeIds == {"csat", "quant", "reasoning"}

\* the question set is tagged: its first question carries the tag (a set
\* has no tags of its own, and those of its first question stand for it)
SetIsTagged(qs, tag) ==
    /\ Len(qs) > 0
    /\ IsArray(Get(qs[1], kTags))
    /\ Includes(Get(qs[1], kTags), Str(tag))

\* C18: the result just calculated is marked with the CSAT scheme exactly
\* when the subject is a quantitative or reasoning one or the question set
\* is tagged math, with the general-studies scheme otherwise: totalMarks is
\* questions x correctMarks of that scheme, and the score is that of the
\* scheme's correctMarks and wrongMarks
SchemeIsBySubjectOrMathTag ==
    lastOp.op = "finishQuiz" =>
        LET r == lastOp.result
            csat == r.subject \in QuantitativeIds \/ SetIsTagged(questions, sMath)
            correctMarks == IF csat THEN CsatCorrect ELSE Gs1Correct
            wrongMarks == IF csat THEN CsatWrong ELSE Gs1Wrong
        IN /\ r.totalMarks = Len(questions) * correctMarks
           /\ r.score = Max(0, RoundDiv(r.correct * correctMarks - r.wrong * wrongMarks, 10))

\* a general-studies subject on a set tagged math was marked with the CSAT
\* scheme: two correct answers and a wrong one
CsatByTagAlone ==
    /\ lastOp.op = "finishQuiz"
    /\ lastOp.result.subject = "polity"
    /\ lastOp.result.correct = 2
    /\ lastOp.result.wrong = 1
    /\ lastOp.result.totalMarks = 3 * CsatCorrect
    /\ lastOp.result.score = 417

\* C38: the time allowance and the marking scheme of a session agree: for
\* every subject id of CONFIG and every tag set of the first question, init
\* has given the CSAT allowance per question exactly when calculateResult
\* marks with the CSAT scheme
AllowanceAndMarksAgree ==
    lastOp.op = "finishQuiz" /\ obs.sessions > 0 /\ timer.totalSeconds > 0 =>
        (timer.totalSeconds = Len(questions) * CsatSeconds
             <=> lastOp.result.totalMarks = Len(questions) * CsatCorrect)

\* C39: a quiz session leads to at most one saved result: when finishQuiz
\* runs a second time, both by the end of the countdown and by the user's
\* Submit or twice by the user, while the first save is pending,
\* Store.saveResult has been called once for the session
OneSavePerSession == obs.sessions > 0 => page.saveCalls <= 1

\* the session is finished: its result was calculated and no quiz was
\* started since (the page stops the timer in finishQuiz alone, and the
\* next startTimer is that of the next quiz)
Finished == obs.stopped

\* C20: once the result of a session was calculated, no submitAnswer,
\* nextQuestion, prevQuestion or timer tick changes the answer log, the
\* pointer to the current question or remaining
FinishedIsInert ==
    [][Finished /\ lastOp'.op \in {"submitAnswer", "nextQuestion", "prevQuestion", "tick"} =>
           /\ userAnswers' = userAnswers
           /\ currentIndex' = currentIndex
           /\ timer'.remaining = timer.remaining]_vars

\* ------------------------------------------------------------------------
\* Properties of the Adapter
\* ------------------------------------------------------------------------
\* a number without a fractional part
IsInteger(x) == x.t = "num" /\ ~x.frac

\* C8: normalize never throws, and what it returns holds at most one
\* question for each item of the array it read
NormalizeNeverThrows ==
    normalized.done =>
        /\ ~normalized.threw
        /\ Len(normalized.out) <= Len(sourceArrayOf(rawData))

\* C9: every question normalize returns has at least two options and an
\* integer correctIndex with 0 <= correctIndex < options.length
OutputQuestionsAreValid ==
    normalized.done =>
        \A k \in 1..Len(normalized.out) :
            LET options == Get(normalized.out[k], kOptions)
                correctIndex == Get(normalized.out[k], kCorrectIndex)
            IN /\ IsArray(options)
               /\ Len(options.v) >= 2
               /\ IsInteger(correctIndex)
               /\ 0 <= correctIndex.v
               /\ correctIndex.v < Len(options.v)

\* the index an answer string stands for: that of its letter A-D, in either
\* case, when the string is the letter alone or the word "Option" followed
\* by the letter; 0 for every other string
sOptionUpper == <<"O","P","T","I","O","N"," ">>
letterIndexOf(str) ==
    LET u == ToUpperCase(Trim(str))
        letter == IF Len(u) = 1 THEN u
                  ELSE IF Len(u) = 8 /\ SubSeq(u, 1, 7) = sOptionUpper THEN <<u[8]>>
                  ELSE <<>>
    IN IF letter \in DOMAIN answerMap THEN answerMap[letter] ELSE 0

\* C12: a question read from a file of one item whose answer is a string
\* has the correctIndex of the letter the string stands for ("B", "b" and
\* "Option B" give 1), and 0 when the string stands for no letter
AnswerLettersAreMapped ==
    normalized.done /\ IsArray(rawData) /\ Len(rawData.v) = 1 /\ Len(normalized.out) = 1 =>
        LET rawAns == Get(rawData.v[1], kAnswer)
        IN TypeOf(rawAns) = "string" =>
               Get(normalized.out[1], kCorrectIndex) = Num(letterIndexOf(rawAns.v))

\* the value an item holds under one of the given names, written in any
\* case of letters; null when it holds none (no item of RawInputs holds two)
fieldOf(item, names) ==
    LET held == {i \in 1..(IF item.t = "obj" THEN Len(item.v) ELSE 0) :
                    \E n \in 1..Len(names) :
                        ToLowerCase(item.v[i].k) = ToLowerCase(names[n])}
    IN IF held = {} THEN Null
       ELSE item.v[CHOOSE i \in held : \A j \in held : i <= j].v

\* an item is valid: its text is not empty and its options are an array
\* of at least two entries
ItemIsValid(item) ==
    /\ Truthy(fieldOf(item, textNames))
    /\ IsArray(fieldOf(item, optionNames))
    /\ Len(fieldOf(item, optionNames).v) >= 2

\* the questions normalize returned are those of the valid items of the
\* batch, one each, in the order of the batch
OutputIsTheValidItems ==
    LET valid == SelectSeq(sourceArrayOf(rawData), ItemIsValid)
    IN /\ Len(normalized.out) = Len(valid)
       /\ \A k \in 1..Len(valid) :
              /\ Get(normalized.out[k], kText) = fieldOf(valid[k], textNames)
              /\ Get(normalized.out[k], kOptions) = fieldOf(valid[k], optionNames)

\* C13: for every batch, the items without text or without an array of at
\* least two options have no question in the output of normalize, and
\* every valid item of the batch has its question there, in input order
InvalidItemsAreDropped == normalized.done => OutputIsTheValidItems

\* the same for the batches without a null item
InvalidItemsAreDroppedUnlessNull ==
    normalized.done /\ (\A i \in 1..Len(sourceArrayOf(rawData)) :
                            ~IsNullish(sourceArrayOf(rawData)[i]))
        => OutputIsTheValidItems

\* a batch with a valid and an invalid item has been normalized
MixedBatchNormalized ==
    /\ normalized.done
    /\ ~normalized.threw
    /\ Len(sourceArrayOf(rawData)) = 2
    /\ Len(normalized.out) = 1
    /\ ItemIsValid(sourceArrayOf(rawData)[2])

\* the list of items of a file: the file itself, or what it holds under
\* questions or data
itemsOf(raw) ==
    IF IsArray(raw) THEN raw.v
    ELSE IF IsArray(Get(raw, kQuestions)) THEN Get(raw, kQuestions).v
    ELSE IF IsArray(Get(raw, kData)) THEN Get(raw, kData).v
    ELSE <<>>

\* the item carries exactly one property under the given names, in any case
carriesOne(item, names) ==
    /\ item.t = "obj"
    /\ Cardinality({i \in 1..Len(item.v) :
                       \E n \in 1..Len(names) :
                           ToLowerCase(item.v[i].k) = ToLowerCase(names[n])}) = 1

\* the item written with the names question, options and answer
canonicalItem(item) ==
    Obj(<<KV(kQuestion, fieldOf(item, textNames)),
          KV(kOptions, fieldOf(item, optionNames)),
          KV(kAnswer, fieldOf(item, answerNames))>>)

\* C24: a file, bare or wrapped under data or questions, whose items each
\* carry their text, options and answer under one of the accepted names in
\* any letter case normalizes to questions with the same text, options and
\* correctIndex as the list of the items written with the names question,
\* options and answer
AliasesAreEquivalent ==
    LET items == itemsOf(rawData)
        canonical == normalize(Arr([i \in 1..Len(items) |-> canonicalItem(items[i])]), now)
    IN normalized.done /\ ~normalized.again /\ Len(items) > 0
         /\ (\A i \in 1..Len(items) : /\ carriesOne(items[i], textNames)
                                       /\ carriesOne(items[i], optionNames)
                                       /\ carriesOne(items[i], answerNames)) =>
           /\ ~normalized.threw
           /\ ~canonical.threw
           /\ Len(normalized.out) = Len(canonical.out)
           /\ \A k \in 1..Len(canonical.out) :
                  /\ Get(normalized.out[k], kText) = Get(canonical.out[k], kText)
                  /\ Get(normalized.out[k], kOptions) = Get(canonical.out[k], kOptions)
                  /\ Get(normalized.out[k], kCorrectIndex) =
                         Get(canonical.out[k], kCorrectIndex)

\* a file that wraps under data an item with the names STATEMENT,
\* ALTERNATIVES and CORRECTINDEX has been normalized to a question whose
\* correctIndex is 1
UpperCaseAliasesRead ==
    /\ normalized.done
    /\ HasOwn(rawData, kData)
    /\ Len(itemsOf(rawData)) = 1
    /\ HasOwn(itemsOf(rawData)[1], ToUpperCase(kStatement))
    /\ HasOwn(itemsOf(rawData)[1], ToUpperCase(kAlternatives))
    /\ HasOwn(itemsOf(rawData)[1], ToUpperCase(kCorrectIndex))
    /\ Len(normalized.out) = 1
    /\ Get(normalized.out[1], kCorrectIndex) = Num(1)

\* C26: the questions returned by one call of normalize have pairwise
\* different ids, those taken from the file and those generated
IdsAreUnique ==
    normalized.done =>
        \A j, k \in 1..Len(normalized.out) :
            j # k => Get(normalized.out[j], kId) # Get(normalized.out[k], kId)

\* C27: the explanation of every question normalize returns is a record of
\* the three fields core, expert_note and elimination, in that shape for
\* every explanation the file can give (a string, an object with any of the
\* fields, a value of another type, nothing), and its core is not null
ExplanationIsUniform ==
    normalized.done =>
        \A k \in 1..Len(normalized.out) :
            LET explanation == Get(normalized.out[k], kExplanation)
            IN /\ explanation.t = "obj"
               /\ ObjectKeys(explanation) = <<kCore, kExpertNote, kElimination>>
               /\ ~IsNullish(Get(explanation, kCore))

\* an item whose explanation is an object that holds an elimination only
\* has been normalized: the core is the default text, the elimination is kept
ExplanationCoreDefaulted ==
    /\ normalized.done
    /\ IsArray(rawData)
    /\ Len(rawData.v) = 1
    /\ Get(rawData.v[1], kExplanation) = Obj(<<KV(kElimination, Str(<<"e">>))>>)
    /\ Len(normalized.out) = 1
    /\ Get(normalized.out[1], kExplanation) =
           Obj(<<KV(kCore, Str(sNoExplanation)), KV(kExpertNote, Null),
                 KV(kElimination, Str(<<"e">>))>>)

\* the list the fallback chain names: the file itself when it is a list;
\* else the list it holds under questions; else the list it holds under
\* data; else the first list among its top-level fields; else none
locatedArray(raw) ==
    LET lists == {i \in 1..(IF raw.t = "obj" THEN Len(raw.v) ELSE 0) : IsArray(raw.v[i].v)}
        under(key) == {i \in lists : raw.v[i].k = key}
        first(set) == raw.v[CHOOSE i \in set : \A j \in set : i <= j].v.v
    IN IF IsArray(raw) THEN raw.v
       ELSE IF under(kQuestions) # {} THEN first(under(kQuestions))
       ELSE IF under(kData) # {} THEN first(under(kData))
       ELSE IF lists # {} THEN first(lists)
       ELSE <<>>

\* a question without its id (a generated id holds the time of the call)
withoutId(q) == SelectSeq(q.v, LAMBDA p : p.k # kId)

\* C28: normalize reads the list the fallback chain names: what it returns
\* for a file is what it returns for that list given as the file, and the
\* empty list when the chain finds no list
SourceArrayIsLocated ==
    LET direct == normalize(Arr(locatedArray(rawData)), now)
    IN normalized.done /\ ~normalized.again =>
           /\ normalized.threw = direct.threw
           /\ Len(normalized.out) = Len(direct.out)
           /\ \A k \in 1..Len(direct.out) :
                  withoutId(normalized.out[k]) = withoutId(direct.out[k])
           /\ locatedArray(rawData) = <<>> => normalized.out = <<>>

\* a file that holds a list under items and, after it, another under data
\* has been normalized: the question is that of data
DataBeforeOtherFields ==
    /\ normalized.done
    /\ rawData.t = "obj"
    /\ Len(rawData.v) = 2
    /\ rawData.v[1].k = kItems
    /\ rawData.v[2].k = kData
    /\ IsArray(rawData.v[1].v)
    /\ Len(rawData.v[1].v.v) = 1
    /\ Len(normalized.out) = 1
    /\ Get(normalized.out[1], kText) = Str(<<"b">>)
    /\ Get(rawData.v[1].v.v[1], kQuestion) = Str(<<"a">>)

\* C14: normalizing the output of normalize again, wrapped as
\* { questions: [...] }, does not throw and returns as many questions as
\* the first time, each with the same id, text, options, correctIndex,
\* topic, difficulty, tags and explanation
NormalizeIsIdempotent ==
    normalized.again => ~normalized.threw /\ normalized.out = normalized.first

\* two different questions have been normalized again at a later time, one
\* of them with an expert note and one with a generated id
RenormalizedLater ==
    /\ normalized.again
    /\ Len(normalized.first) = 2
    /\ normalized.first[1] # normalized.first[2]
    /\ \E k \in 1..2 :
           Get(Get(normalized.first[k], kExplanation), kExpertNote) # Null
    /\ \E k \in 1..2 :
           \E ts \in PageLoadTime..(now - 1) :
               Get(normalized.first[k], kId) = fallbackId(ts, k - 1)

\* ------------------------------------------------------------------------
\* Properties of a quiz from the file to the result
\* ------------------------------------------------------------------------
\* the file is a list of valid items that each have a number as answer
\* and "math" among their tags
MathBatch ==
    /\ IsArray(rawData)
    /\ \A i \in 1..Len(rawData.v) :
           /\ ItemIsValid(rawData.v[i])
           /\ TypeOf(fieldOf(rawData.v[i], answerNames)) = "number"
           /\ IsArray(fieldOf(rawData.v[i], tagNames))
           /\ Includes(fieldOf(rawData.v[i], tagNames), Str(sMath))

\* the user has submitted on every question the index its item gives as
\* the answer
AllAnsweredAsInFile ==
    /\ Len(userAnswers) = Len(rawData.v)
    /\ \A i \in 1..Len(rawData.v) :
           /\ userAnswers[i] # Null
           /\ userAnswers[i].selected = fieldOf(rawData.v[i], answerNames)

\* C23: for a file of items with a number as answer and a math tag, the
\* quiz started on the normalized file has the CSAT allowance for each item,
\* and when the user has submitted the item's answer on every question the
\* result for "quant" has correct = number of items, wrong = 0, skipped = 0,
\* score = correct x the CSAT marks = totalMarks, accuracy 100 and no
\* missed question
PerfectQuantQuiz ==
    MathBatch =>
        /\ lastOp.op = "startQuiz" /\ lastOp.ret = "true" =>
               /\ Len(questions) = Len(rawData.v)
               /\ timer.totalSeconds = Len(rawData.v) * CsatSeconds
               /\ timer.remaining = timer.totalSeconds
        /\ lastOp.op = "finishQuiz" /\ lastOp.result.subject = "quant"
             /\ AllAnsweredAsInFile =>
               LET r == lastOp.result
               IN /\ r.correct = Len(rawData.v)
                  /\ r.wrong = 0
                  /\ r.skipped = 0
                  /\ 10 * r.score = r.correct * CsatCorrect
                  /\ 10 * r.score = r.totalMarks
                  /\ r.accuracy = 1000
                  /\ r.mistakes = <<>>

\* the result for "quant" of a file of two different math items, both
\* answered as the file says
PerfectOnTwoItems ==
    /\ MathBatch
    /\ Len(rawData.v) = 2
    /\ rawData.v[1] # rawData.v[2]
    /\ lastOp.op = "finishQuiz"
    /\ lastOp.result.subject = "quant"
    /\ AllAnsweredAsInFile
    /\ lastOp.result.score = 500

====
